---- MODULE Spec2Model ----
(***************************************************************************)
(* Model of the WebMCP Hub browser extension.                              *)
(*                                                                         *)
(*  - background.ts : the per-tab navigation coordinator (SpecNav)         *)
(*  - content script: the tool registrar (SpecReg) and the tool            *)
(*                    execution entry point (SpecExec)                     *)
(***************************************************************************)
EXTENDS Integers, Sequences, FiniteSets, TLC

(***************************************************************************)
(* Bounds                                                                  *)
(***************************************************************************)
NumTabs == 2
MaxEvents == 3
MaxMessages == 2
MaxConfigs == 2
MaxTicks == 2
MaxMutations == 1
MaxElements == 2

(***************************************************************************)
(* JavaScript Map helpers (Map.get / Map.set / Map.delete / Map.has).      *)
(* A Map is a function whose DOMAIN is the set of keys present.            *)
(***************************************************************************)
MapHas(m, k) == k \in DOMAIN m
MapSet(m, k, v) == [x \in (DOMAIN m) \cup {k} |-> IF x = k THEN v ELSE m[x]]
MapDelete_Clear(m, k) == [x \in {} |-> 0]
MapDelete_Kept(m, k) == m
MapDelete(m, k) == [x \in (DOMAIN m) \ {k} |-> m[x]]
EmptyMap == [x \in {} |-> 0]

(***************************************************************************)
(* URLs.  A raw URL is what the webNavigation event carries.  hostname is  *)
(* the sequence of dot-separated labels, port is the port written in the   *)
(* URL ("" when none is written).                                          *)
(***************************************************************************)
Tabs == 1..NumTabs

RawUrl(valid, scheme, hostname, port, pathname, search) ==
    [valid |-> valid, scheme |-> scheme, hostname |-> hostname,
     port |-> port, pathname |-> pathname, search |-> search]

MalformedUrl == RawUrl(FALSE, "", <<>>, "", "", "")

\* The URLs the navigation events of the coordinator model carry.
NavUrls ==
    { RawUrl(TRUE, "https", <<"a", "com">>, "", "/", ""),
      RawUrl(TRUE, "http", <<"www", "a", "com">>, "", "/", "?q=1"),
      RawUrl(TRUE, "https", <<"a", "com">>, "", "/x", ""),
      RawUrl(TRUE, "https", <<"b", "com">>, "", "/", ""),
      MalformedUrl }

\* new URL(rawUrl).port : the WHATWG parser drops the scheme's default port.
SchemeDefaultPort(scheme) == IF scheme = "http" THEN "80" ELSE "443"
UrlPort(u) == IF u.port = SchemeDefaultPort(u.scheme) THEN "" ELSE u.port

\* url.hostname.replace(/^www\./, "")
StripWww(hostname) ==
    IF Len(hostname) >= 2 /\ Head(hostname) = "www" THEN Tail(hostname) ELSE hostname

\* const domain = url.port && url.port !== "80" && url.port !== "443" ? `${host}:${url.port}` : host
DomainOf(u) ==
    LET host == StripWww(u.hostname)
        port == UrlPort(u)
    IN  IF port # "" /\ port # "80" /\ port # "443"
        THEN [host |-> host, port |-> port]
        ELSE [host |-> host, port |-> ""]

\* const normalizedUrl = domain + url.pathname
NormalizedUrl(u) == [domain |-> DomainOf(u), pathname |-> u.pathname]

(***************************************************************************)
(* Configs returned by the lookup.  A tool descriptor carries its name, an *)
(* identity (id), whether it has an execution body, and its annotations.   *)
(***************************************************************************)
Tool(id, name, execution, destructive) ==
    [id |-> id, name |-> name, execution |-> execution, destructive |-> destructive]

Config(id, tools) == [id |-> id, tools |-> tools]

\* The config lists the lookup collaborator returns in the coordinator model.
NavConfigLists ==
    { <<>>,
      << Config("k1", << Tool(1, "search", TRUE, FALSE) >>) >> }

VARIABLES
    \* ---- background.ts ----
    lastUrl,           \* Map tabId -> normalized URL last processed
    navSeq,            \* Map tabId -> sequence number
    registeredDomain,  \* Map tabId -> domain whose tools are registered
    session,           \* browser.storage.session : Map tabId -> entry
    pending,           \* handleNavigation invocations suspended at an await
    sent,              \* CONFIGS_FOUND messages passed to tabs.sendMessage
    lookups,           \* number of lookupConfig calls issued, per tab
    closed,            \* tabs for which onRemoved has fired
    nEvents,           \* number of browser events delivered so far
    ev,                \* the step just taken and its inputs
    \* ---- content script: registrar ----
    registeredTools,   \* Set of tracked tool names, in insertion order
    modelContext,      \* capability of navigator.modelContext
    hostTools,         \* the host's registry: Map name -> registration
    forms,             \* toolname attribute values of the page's form[toolname]
    hostCalls,         \* host API calls made by the last registerTools call
    regCall,           \* the last message handled and the page state it saw
    nMsgs,             \* number of runtime messages delivered so far
    \* ---- content script: tool execution ----
    xpc,               \* where the invocation of executeTool stands
    call,              \* the tool, parameters and agent handle of the invocation
    frames,            \* the loops over steps being run: exec.steps, branches
    poll,              \* the wait the invocation is suspended in
    now,               \* Date.now()
    nTicks,            \* number of clock advances so far
    nMutations,        \* number of page mutations so far
    dom,               \* the page: what a query finds of each element
    inForm,            \* whether the page's fields sit inside a form
    errors,            \* errors of executeToolInner
    fieldIdx,          \* position of the loop over exec.fields
    effects,           \* what the invocation did to the page, in order
    outcome,           \* how the promise returned to the host settled
    \* ---- pure functions applied to chosen arguments ----
    fnIn,              \* the arguments
    fnOut              \* the function applied and what it returned

navVars == <<lastUrl, navSeq, registeredDomain, session, pending, sent,
             lookups, closed, nEvents, ev>>

regVars == <<registeredTools, modelContext, hostTools, forms, hostCalls,
             regCall, nMsgs>>

execVars == <<xpc, call, frames, poll, now, nTicks, nMutations, dom, inForm,
              errors, fieldIdx, effects, outcome>>

fnVars == <<fnIn, fnOut>>

vars == <<navVars, regVars, execVars, fnVars>>

\* What a step of one component leaves alone.
notNav == <<regVars, execVars, fnVars>>
notReg == <<navVars, execVars, fnVars>>
notExec == <<navVars, regVars, fnVars>>
notFn == <<navVars, regVars, execVars>>

(***************************************************************************)
(* background.ts                                                           *)
(***************************************************************************)
\* Record of one step: the listener or continuation that ran, the event's
\* inputs, and (for a continuation) the invocation h it resumed.
NoDomain == [host |-> <<>>, port |-> ""]
NavEvent(kind, tab, url, frameId, hid) ==
    [kind |-> kind, tab |-> tab, url |-> url, frameId |-> frameId,
     hid |-> hid, seq |-> 0, domain |-> NoDomain, configs |-> <<>>]
Resumed(kind, h, configs) ==
    [kind |-> kind, tab |-> h.tab, url |-> MalformedUrl, frameId |-> 0,
     hid |-> h.hid, seq |-> h.seq, domain |-> h.domain, configs |-> configs]

NavInit ==
    /\ lastUrl = EmptyMap
    /\ navSeq = EmptyMap
    /\ registeredDomain = EmptyMap
    /\ session = EmptyMap
    /\ pending = {}
    /\ sent = <<>>
    /\ lookups = [t \in Tabs |-> 0]
    /\ closed = {}
    /\ nEvents = 0
    /\ ev = NavEvent("init", 0, MalformedUrl, 0, 0)

IsDuplicate_Never(lu, tabId, normalizedUrl) == FALSE

\* The dedup test of handleNavigation: lastUrl.get(tabId) === normalizedUrl
IsDuplicate(lu, tabId, normalizedUrl) ==
    MapHas(lu, tabId) /\ lu[tabId] = normalizedUrl

NextSeq_Wrapped(tabId) == ((IF MapHas(navSeq, tabId) THEN navSeq[tabId] ELSE 0) % 2) + 1

\* const seq = (navSeq.get(tabId) ?? 0) + 1
NextSeq(tabId) == (IF MapHas(navSeq, tabId) THEN navSeq[tabId] ELSE 0) + 1

\* handleNavigation up to its first await (lines 12-34).  lu and rd are the
\* dedup and registered-domain maps as the calling listener left them.
handleNavigation(tabId, rawUrl, lu, rd) ==
    IF ~rawUrl.valid
    THEN \* new URL(rawUrl) throws; the catch logs it
         /\ lastUrl' = lu
         /\ registeredDomain' = rd
         /\ UNCHANGED <<navSeq, pending, lookups>>
    ELSE LET domain == DomainOf(rawUrl)
             normalizedUrl == NormalizedUrl(rawUrl)
             seq == NextSeq(tabId)
         IN  IF IsDuplicate(lu, tabId, normalizedUrl)
             THEN /\ lastUrl' = lu
                  /\ registeredDomain' = rd
                  /\ UNCHANGED <<navSeq, pending, lookups>>
             ELSE /\ lastUrl' = MapSet(lu, tabId, normalizedUrl)
                  /\ registeredDomain' = rd
                  /\ navSeq' = MapSet(navSeq, tabId, seq)
                  /\ lookups' = [lookups EXCEPT ![tabId] = @ + 1]
                  /\ pending' = pending \cup
                        {[hid |-> nEvents + 1, tab |-> tabId, domain |-> domain,
                          url |-> normalizedUrl, seq |-> seq, pc |-> "lookup",
                          configs |-> <<>>]}

DedupAfterFullNavigation_Kept(tabId) == lastUrl

\* lastUrl.delete(details.tabId) in the onCompleted listener
DedupAfterFullNavigation(tabId) == MapDelete(lastUrl, tabId)

\* browser.webNavigation.onCompleted listener
onCompleted(tabId, rawUrl, frameId) ==
    /\ nEvents < MaxEvents
    /\ tabId \notin closed
    /\ nEvents' = nEvents + 1
    /\ ev' = NavEvent("completed", tabId, rawUrl, frameId, nEvents + 1)
    /\ UNCHANGED <<session, sent, closed>>
    /\ IF frameId # 0
       THEN UNCHANGED <<lastUrl, navSeq, registeredDomain, pending, lookups>>
       ELSE handleNavigation(tabId, rawUrl,
                             DedupAfterFullNavigation(tabId),
                             MapDelete(registeredDomain, tabId))

\* browser.webNavigation.onHistoryStateUpdated listener
onHistoryStateUpdated(tabId, rawUrl, frameId) ==
    /\ nEvents < MaxEvents
    /\ tabId \notin closed
    /\ nEvents' = nEvents + 1
    /\ ev' = NavEvent("history", tabId, rawUrl, frameId, nEvents + 1)
    /\ UNCHANGED <<session, sent, closed>>
    /\ IF frameId # 0
       THEN UNCHANGED <<lastUrl, navSeq, registeredDomain, pending, lookups>>
       ELSE handleNavigation(tabId, rawUrl, lastUrl, registeredDomain)

IsStale_Never(h) == FALSE

\* The staleness fence: navSeq.get(tabId) !== seq
IsStale(h) == ~(MapHas(navSeq, h.tab) /\ navSeq[h.tab] = h.seq)

DomainChanged_AnyPrev(h) == MapHas(registeredDomain, h.tab)

\* const domainChanged = prevDomain !== undefined && prevDomain !== domain
DomainChanged(h) ==
    MapHas(registeredDomain, h.tab) /\ registeredDomain[h.tab] # h.domain

IgnoreResult_AnyEmpty(h, configs) == Len(configs) = 0

\* if (result.configs.length === 0 && !domainChanged) return
IgnoreResult(h, configs) == Len(configs) = 0 /\ ~DomainChanged(h)

\* handleNavigation resumed when lookupConfig resolves (lines 36-59): up to
\* the await of browser.storage.session.set, whose write is issued here.
lookupResolved(h, configs) ==
    /\ h \in pending /\ h.pc = "lookup"
    /\ ev' = Resumed("resolved", h, configs)
    /\ UNCHANGED <<lastUrl, navSeq, lookups, closed, nEvents, sent>>
    /\ IF IsStale(h)
       THEN /\ pending' = pending \ {h}
            /\ UNCHANGED <<registeredDomain, session>>
       ELSE IF IgnoreResult(h, configs)
       THEN /\ pending' = pending \ {h}
            /\ UNCHANGED <<registeredDomain, session>>
       ELSE /\ registeredDomain' = MapSet(registeredDomain, h.tab, h.domain)
            /\ session' = MapSet(session, h.tab,
                                 [configs |-> configs, domain |-> h.domain])
            /\ pending' = (pending \ {h}) \cup
                          {[h EXCEPT !.pc = "stored", !.configs = configs]}

\* lookupConfig rejects (network failure, bad JSON): the catch logs it
lookupFailed(h) ==
    /\ h \in pending /\ h.pc = "lookup"
    /\ ev' = Resumed("failed", h, <<>>)
    /\ pending' = pending \ {h}
    /\ UNCHANGED <<lastUrl, navSeq, registeredDomain, session, sent, lookups,
                   closed, nEvents>>

\* handleNavigation resumed after the session write (lines 61-69)
sessionStored(h) ==
    /\ h \in pending /\ h.pc = "stored"
    /\ ev' = Resumed("notified", h, h.configs)
    /\ sent' = Append(sent, [tab |-> h.tab, type |-> "CONFIGS_FOUND",
                             configs |-> h.configs])
    /\ pending' = pending \ {h}
    /\ UNCHANGED <<lastUrl, navSeq, registeredDomain, session, lookups,
                   closed, nEvents>>

\* browser.tabs.onRemoved listener
onRemoved(tabId) ==
    /\ nEvents < MaxEvents
    /\ tabId \notin closed
    /\ nEvents' = nEvents + 1
    /\ closed' = closed \cup {tabId}
    /\ ev' = NavEvent("removed", tabId, MalformedUrl, 0, nEvents + 1)
    /\ session' = MapDelete(session, tabId)
    /\ lastUrl' = MapDelete(lastUrl, tabId)
    /\ navSeq' = MapDelete(navSeq, tabId)
    /\ registeredDomain' = MapDelete(registeredDomain, tabId)
    /\ UNCHANGED <<pending, sent, lookups>>

NavNext ==
    \/ \E t \in Tabs, u \in NavUrls, f \in {0, 1} : onCompleted(t, u, f) /\ UNCHANGED notNav
    \/ \E t \in Tabs, u \in NavUrls, f \in {0, 1} : onHistoryStateUpdated(t, u, f) /\ UNCHANGED notNav
    \/ \E h \in pending, c \in NavConfigLists : lookupResolved(h, c) /\ UNCHANGED notNav
    \/ \E h \in pending : lookupFailed(h) /\ UNCHANGED notNav
    \/ \E h \in pending : sessionStored(h) /\ UNCHANGED notNav
    \/ \E t \in Tabs : onRemoved(t) /\ UNCHANGED notNav

(***************************************************************************)
(* Content script: the tool registrar                                      *)
(***************************************************************************)
Range(f) == {f[i] : i \in DOMAIN f}

\* Tool descriptors and configs delivered to the page in the registrar model.
T1 == Tool(1, "a", TRUE, FALSE)
T2 == Tool(2, "a", FALSE, FALSE)
T3 == Tool(3, "a", TRUE, TRUE)
T4 == Tool(4, "b", TRUE, FALSE)
T5 == Tool(5, "c", TRUE, TRUE)
T6 == Tool(6, "b", FALSE, FALSE)

RegConfigs ==
    { Config("k1", <<T1, T4>>),
      Config("k2", <<T2, T3>>),
      Config("k3", <<T3, T1>>),
      Config("k4", <<T5, T6>>),
      Config("k5", <<>>) }

RECURSIVE SeqsUpTo(_, _)
SeqsUpTo(S, n) ==
    IF n = 0 THEN {<<>>}
    ELSE LET shorter == SeqsUpTo(S, n - 1)
         IN  shorter \cup {Append(q, x) : q \in shorter, x \in S}

RegConfigLists == SeqsUpTo(RegConfigs, MaxConfigs)

\* toolname attribute values a form[toolname] of the page may carry
FormNames == {"", "a", "b"}

\* What navigator.modelContext offers: nothing, provideContext, or
\* registerTool with or without unregisterTool.
ModelContexts == {"none", "provideContext", "incremental", "registerOnly"}

Message(type, hasConfigs, configs) ==
    [type |-> type, hasConfigs |-> hasConfigs, configs |-> configs]

Messages ==
    {Message("CONFIGS_FOUND", TRUE, c) : c \in RegConfigLists}
    \cup {Message("CONFIGS_FOUND", FALSE, <<>>), Message("OTHER", TRUE, <<>>)}

RegIdle ==
    /\ registeredTools = <<>>
    /\ hostTools = EmptyMap
    /\ hostCalls = <<>>
    /\ nMsgs = 0
    /\ regCall = [ran |-> FALSE, repeat |-> FALSE,
                  msg |-> Message("OTHER", FALSE, <<>>), declared |-> {}]

RegInit ==
    /\ RegIdle
    /\ modelContext \in ModelContexts
    /\ forms \in SUBSET FormNames

\* declarativeNames (lines 52-56): the non-empty toolname attributes
DeclarativeNames(fs) == {name \in fs : name # ""}

\* The nested loops of lines 61-62 visit the tools in this order.
RECURSIVE FlattenTools(_)
FlattenTools(configs) ==
    IF configs = <<>> THEN <<>>
    ELSE Head(configs).tools \o FlattenTools(Tail(configs))

SkipTool_NoDeclarative(tool, seen, declarativeNames) ==
    \/ ~tool.execution
    \/ tool.name \in Range(seen)

SkipTool_NoSeen(tool, seen, declarativeNames) ==
    \/ ~tool.execution
    \/ tool.name \in declarativeNames

SkipTool_NoExecution(tool, seen, declarativeNames) ==
    \/ tool.name \in Range(seen)
    \/ tool.name \in declarativeNames

SkipTool_Tracked(tool, seen, declarativeNames) ==
    \/ ~tool.execution
    \/ tool.name \in Range(seen)
    \/ tool.name \in declarativeNames
    \/ tool.name \in Range(registeredTools)

\* The three `continue` tests of lines 63-70
SkipTool(tool, seen, declarativeNames) ==
    \/ ~tool.execution
    \/ tool.name \in Range(seen)
    \/ tool.name \in declarativeNames

\* The ToolRegistration pushed at lines 73-80; id stands for the description,
\* schema and execute closure of the descriptor it was built from.
Registration(tool) ==
    [name |-> tool.name, id |-> tool.id, execution |-> tool.execution,
     destructive |-> tool.destructive]

\* seen holds the names of the registrations pushed so far, in order.
SeenOf(tools) == [i \in DOMAIN tools |-> tools[i].name]

\* Lines 59-82: the registrations built from the tools still to visit.
RECURSIVE BuildTools(_, _, _)
BuildTools(flat, tools, declarativeNames) ==
    IF flat = <<>> THEN tools
    ELSE IF SkipTool(Head(flat), SeenOf(tools), declarativeNames)
         THEN BuildTools(Tail(flat), tools, declarativeNames)
         ELSE BuildTools(Tail(flat), Append(tools, Registration(Head(flat))),
                         declarativeNames)

HostCall(op, name, tools) == [op |-> op, name |-> name, tools |-> tools]

StaleNames_None(seen) == <<>>

\* Lines 88-92: unregisterTool for each tracked name that is not in seen
StaleNames(seen) ==
    SelectSeq(registeredTools, LAMBDA name : name \notin Range(seen))

Delivery_SkipsKept(tools) ==
    LET seen == SeenOf(tools)
        stale == StaleNames(seen)
        fresh == SelectSeq(tools, LAMBDA t : t.name \notin Range(registeredTools))
        unregisters == [i \in DOMAIN stale |-> HostCall("unregisterTool", stale[i], <<>>)]
        registers == [i \in DOMAIN fresh |-> HostCall("registerTool", fresh[i].name, <<fresh[i]>>)]
    IN  IF modelContext = "provideContext"
        THEN << HostCall("provideContext", "", tools) >>
        ELSE IF modelContext = "incremental"
        THEN unregisters \o registers
        ELSE registers

Delivery_RegisterFirst(tools) ==
    LET seen == SeenOf(tools)
        stale == StaleNames(seen)
        unregisters == [i \in DOMAIN stale |-> HostCall("unregisterTool", stale[i], <<>>)]
        registers == [i \in DOMAIN tools |-> HostCall("registerTool", tools[i].name, <<tools[i]>>)]
    IN  IF modelContext = "provideContext"
        THEN << HostCall("provideContext", "", tools) >>
        ELSE IF modelContext = "incremental"
        THEN registers \o unregisters
        ELSE registers

\* Lines 84-96: the calls made on the host, in order.
Delivery(tools) ==
    LET seen == SeenOf(tools)
        stale == StaleNames(seen)
        unregisters == [i \in DOMAIN stale |-> HostCall("unregisterTool", stale[i], <<>>)]
        registers == [i \in DOMAIN tools |-> HostCall("registerTool", tools[i].name, <<tools[i]>>)]
    IN  IF modelContext = "provideContext"
        THEN << HostCall("provideContext", "", tools) >>
        ELSE IF modelContext = "incremental"
        THEN unregisters \o registers
        ELSE registers

\* The host's side of one call: provideContext replaces the registry,
\* registerTool sets (or overwrites) a name, unregisterTool removes it.
HostApply(host, hostCall) ==
    IF hostCall.op = "provideContext"
    THEN [name \in Range(SeenOf(hostCall.tools)) |->
            CHOOSE t \in Range(hostCall.tools) : t.name = name]
    ELSE IF hostCall.op = "registerTool"
    THEN MapSet(host, hostCall.name, hostCall.tools[1])
    ELSE MapDelete(host, hostCall.name)

RECURSIVE HostApplyAll(_, _)
HostApplyAll(host, calls) ==
    IF calls = <<>> THEN host
    ELSE HostApplyAll(HostApply(host, Head(calls)), Tail(calls))

\* registerTools(configs), lines 47-100
registerTools(configs) ==
    IF modelContext = "none"
    THEN UNCHANGED <<registeredTools, hostTools, hostCalls>>
    ELSE LET tools == BuildTools(FlattenTools(configs), <<>>, DeclarativeNames(forms))
             calls == Delivery(tools)
         IN  /\ hostCalls' = calls
             /\ hostTools' = HostApplyAll(hostTools, calls)
             /\ registeredTools' = SeenOf(tools)

\* browser.runtime.onMessage listener, lines 30-34
onMessage(message) ==
    /\ nMsgs < MaxMessages
    /\ nMsgs' = nMsgs + 1
    /\ UNCHANGED <<modelContext, forms>>
    /\ IF message.type = "CONFIGS_FOUND" /\ message.hasConfigs
       THEN /\ registerTools(message.configs)
            /\ regCall' = [ran |-> modelContext # "none",
                           repeat |-> regCall.ran /\ regCall.msg = message
                                      /\ regCall.declared = forms,
                           msg |-> message, declared |-> forms]
       ELSE /\ UNCHANGED <<registeredTools, hostTools, hostCalls>>
            /\ regCall' = [ran |-> FALSE, repeat |-> FALSE,
                           msg |-> message, declared |-> forms]

\* The page adds or removes form[toolname] elements.
pageChangesForms(fs) ==
    /\ fs # forms
    /\ forms' = fs
    /\ UNCHANGED <<registeredTools, modelContext, hostTools, hostCalls,
                   regCall, nMsgs>>

RegNext ==
    \/ \E m \in Messages : onMessage(m) /\ UNCHANGED notReg
    \/ \E fs \in SUBSET FormNames : pageChangesForms(fs) /\ UNCHANGED notReg

(***************************************************************************)
(* Content script: tool execution                                          *)
(***************************************************************************)
\* ---- values -------------------------------------------------------------
\* A JavaScript value an executeStep call or an extraction yields: null, a
\* string (the sequence of its parts) or an array of strings.
Null == [t |-> "null", s |-> <<>>]
Str(parts) == [t |-> "str", s |-> parts]
List(items) == [t |-> "list", s |-> items]

\* array.join(sep) of an array of at most one string
Join(items) == IF items = <<>> THEN <<>> ELSE items[1]

\* String(value)
StringOf(v) == IF v.t = "list" THEN Join(v.s) ELSE v.s

\* An Error with its message.
Err(message) == [message |-> message]

\* function mcpResult(text)
mcpResult(text) == [content |-> <<[type |-> "text", text |-> text]>>]

\* ---- the page -----------------------------------------------------------
\* Elements of the page and what a query can find of each.
Elements == {"q", "r", "go", "results", "submit"}
DomStates == {"absent", "hidden", "disabled", "visible"}

\* A selector names the element it resolves to.  kind "css" is plain CSS,
\* "hasText" carries a :has-text() filter, "badSuffix" a :has-text() filter
\* followed by an invalid suffix, "invalid" is not valid CSS at all.
Sel(kind, el) == [kind |-> kind, el |-> el, sub |-> ""]

\* interpolate(exec.selector, params) + ` [type="submit"]`
SubmitWithin(sel) == [sel EXCEPT !.el = "submit", !.sub = "[type=submit]"]

SelQ == Sel("css", "q")
SelR == Sel("css", "r")
SelGo == Sel("css", "go")
SelGoText == Sel("hasText", "go")
SelResults == Sel("css", "results")
SelLate == Sel("badSuffix", "results")
SelBad == Sel("invalid", "q")

Found(st) == [threw |-> FALSE, el |-> st, err |-> Err(<<>>)]
Threw(err) == [threw |-> TRUE, el |-> "absent", err |-> err]

SyntaxError(sel) == Err(<<"SyntaxError", sel.el>>)

\* function isVisible(el)
isVisible(st) == st \in {"visible", "disabled"}

\* function checkState(el, state)
checkState(st, state) ==
    IF state = "hidden" THEN st = "absent" \/ ~isVisible(st)
    ELSE IF state = "exists" THEN st # "absent"
    ELSE st # "absent" /\ isVisible(st)

\* function deepQuery(selector): querySelector throws on anything that is
\* not CSS, :has-text() included.
deepQuery(d, sel) ==
    IF sel.kind # "css" THEN Threw(SyntaxError(sel)) ELSE Found(d[sel.el])

\* function query(selector, params): resolves :has-text(); an invalid
\* suffix throws once an element passes the text filter.
query(d, sel) ==
    IF sel.kind = "invalid" THEN Threw(SyntaxError(sel))
    ELSE IF sel.kind = "badSuffix" /\ d[sel.el] # "absent" THEN Threw(SyntaxError(sel))
    ELSE Found(d[sel.el])

\* textContent?.trim() of an element
TextOf(el) == <<"text of", el>>

\* function extractResult(selector, mode): the value, or the exception
Extracted(threw, value, err) == [threw |-> threw, value |-> value, err |-> err]

extractResult(d, sel, mode) ==
    LET q == query(d, sel)
    IN  IF q.threw THEN Extracted(TRUE, Null, q.err)
        ELSE IF mode = "list"
        THEN Extracted(FALSE, List(IF q.el = "absent" THEN <<>> ELSE << TextOf(sel.el) >>), q.err)
        ELSE IF q.el = "absent" THEN Extracted(FALSE, Null, q.err)
        ELSE Extracted(FALSE, Str(TextOf(sel.el)), q.err)

\* ---- descriptors --------------------------------------------------------
\* A value template: a literal, or {{param}}.
Lit(text) == [param |-> "", lit |-> text]
Param(name) == [param |-> name, lit |-> ""]

\* function interpolate(template, params)
interpolate(template, params) ==
    IF template.param = "" THEN template.lit
    ELSE IF template.param \in DOMAIN params THEN params[template.param]
    ELSE ""

DefaultTimeout == 5000

ActionStep(action, selector, value, state, timeout, extract, thenSteps, hasElse, elseSteps) ==
    [action |-> action, selector |-> selector, value |-> value,
     state |-> state, timeout |-> timeout, extract |-> extract,
     thenSteps |-> thenSteps, hasElse |-> hasElse, elseSteps |-> elseSteps]

Navigate(url) == ActionStep("navigate", SelQ, url, "", 0, "", <<>>, FALSE, <<>>)
Click(sel) == ActionStep("click", sel, Lit(""), "", 0, "", <<>>, FALSE, <<>>)
Fill(sel, value) == ActionStep("fill", sel, value, "", 0, "", <<>>, FALSE, <<>>)
Select(sel, value) == ActionStep("select", sel, value, "", 0, "", <<>>, FALSE, <<>>)
Wait(sel, state, timeout) ==
    ActionStep("wait", sel, Lit(""), state, timeout, "", <<>>, FALSE, <<>>)
Extract(sel, mode) == ActionStep("extract", sel, Lit(""), "", 0, mode, <<>>, FALSE, <<>>)
Scroll(sel) == ActionStep("scroll", sel, Lit(""), "", 0, "", <<>>, FALSE, <<>>)
Evaluate(value) == ActionStep("evaluate", SelQ, value, "", 0, "", <<>>, FALSE, <<>>)
Condition(sel, state, thenSteps) ==
    ActionStep("condition", sel, Lit(""), state, 0, "", thenSteps, FALSE, <<>>)
ConditionElse(sel, state, thenSteps, elseSteps) ==
    ActionStep("condition", sel, Lit(""), state, 0, "", thenSteps, TRUE, elseSteps)

ToolField(name, type, selector, options) ==
    [name |-> name, type |-> type, selector |-> selector, options |-> options]

RadioOption(value, selector) == [value |-> value, selector |-> selector]

ExecutionDescriptor(selector, steps, fields, autosubmit, submitAction, hasSubmitSelector, submitSelector, resultWait, resultRequired, resultDelay, resultSelector, resultExtract) ==
    [selector |-> selector, steps |-> steps, fields |-> fields,
     autosubmit |-> autosubmit, submitAction |-> submitAction,
     hasSubmitSelector |-> hasSubmitSelector, submitSelector |-> submitSelector,
     resultWait |-> resultWait, resultRequired |-> resultRequired,
     resultDelay |-> resultDelay, resultSelector |-> resultSelector,
     resultExtract |-> resultExtract]

\* Descriptor options that may be absent
NoSel == Sel("none", "q")

MultiStep(steps) ==
    ExecutionDescriptor(SelQ, steps, <<>>, FALSE, "click", FALSE, NoSel,
                        NoSel, FALSE, 0, NoSel, "text")

ExecTool(name, destructive, exec) ==
    [name |-> name, destructive |-> destructive, exec |-> exec]

FieldQ == ToolField("term", "text", SelQ, <<>>)
FieldR == ToolField("kind", "radio", SelR, << RadioOption("x", SelR) >>)
FieldBad == ToolField("term", "text", SelGoText, <<>>)

\* The tool descriptors the host may invoke in the execution model.
ExecTools ==
    { ExecTool("search", FALSE, MultiStep(<<
          Fill(SelQ, Param("term")), Click(SelGo),
          Wait(SelResults, "visible", 2000), Extract(SelResults, "text") >>)),
      ExecTool("branch", TRUE, MultiStep(<<
          ConditionElse(SelGo, "visible",
                        << Click(SelGoText), Extract(SelResults, "list") >>,
                        << Scroll(SelResults) >>),
          Condition(SelResults, "hidden", << Navigate(Lit("/next")) >>) >>)),
      ExecTool("script", FALSE, MultiStep(<<
          Evaluate(Param("term")), Select(SelR, Lit("x")),
          Wait(SelLate, "exists", 2000), Extract(SelBad, "text") >>)),
      ExecTool("submitEnter", TRUE,
          ExecutionDescriptor(SelGo, <<>>, << FieldQ, FieldR >>, TRUE, "enter",
                              FALSE, NoSel, NoSel, FALSE, 0, NoSel, "text")),
      ExecTool("submitClick", FALSE,
          ExecutionDescriptor(SelGo, <<>>, << FieldBad, FieldR >>, TRUE, "click",
                              FALSE, NoSel, NoSel, FALSE, 0, NoSel, "text")),
      ExecTool("submitButton", FALSE,
          ExecutionDescriptor(SelQ, <<>>, <<>>, TRUE, "click",
                              TRUE, SelGoText, NoSel, FALSE, 0, NoSel, "text")),
      ExecTool("readRequired", FALSE,
          ExecutionDescriptor(SelQ, <<>>, << FieldQ >>, FALSE, "click",
                              FALSE, NoSel, SelResults, TRUE, 0, SelResults, "text")),
      ExecTool("readSoft", FALSE,
          ExecutionDescriptor(SelQ, <<>>, << FieldQ >>, FALSE, "click",
                              FALSE, NoSel, SelResults, FALSE, 0, SelResults, "list")),
      ExecTool("readDelayed", FALSE,
          ExecutionDescriptor(SelQ, <<>>, <<>>, FALSE, "click",
                              FALSE, NoSel, NoSel, FALSE, 300, NoSel, "text")) }

\* The parameter maps the host may pass.
NoParams == [x \in {} |-> ""]
ExecParams == { NoParams, [term |-> "rust"], [term |-> "rust", kind |-> "x"],
                [kind |-> "y"] }

\* The agent handle: absent, or with a confirmation gate.
Agents == {"none", "agent"}

\* ---- state --------------------------------------------------------------
NoCall == [tool |-> ExecTool("", FALSE, MultiStep(<<>>)), params |-> NoParams,
           agent |-> "none", approved |-> FALSE]
NoPoll == [kind |-> "none", sel |-> NoSel, state |-> "", timeout |-> 0, start |-> 0]
NoErr == Err(<<>>)
NoOutcome == [raised |-> FALSE, error |-> NoErr,
              settled |-> [kind |-> "none", value |-> mcpResult(<<>>)]]

\* One loop over steps: its position, the result of the step it ran last
\* (lastResult / result) and, for the record, the results of all its steps.
Frame(steps) == [steps |-> steps, i |-> 1, result |-> Null, log |-> <<>>]

ExecIdle ==
    /\ xpc = "idle"
    /\ call = NoCall
    /\ frames = <<>>
    /\ poll = NoPoll
    /\ now = 0
    /\ nTicks = 0
    /\ nMutations = 0
    /\ errors = <<>>
    /\ fieldIdx = 0
    /\ effects = <<>>
    /\ outcome = NoOutcome

\* The pages a tool may be invoked on.
Doms ==
    { d \in [Elements -> DomStates] :
        /\ d["q"] \in {"absent", "visible"}
        /\ d["r"] \in {"absent", "visible"}
        /\ d["submit"] \in {"absent", "visible"}
        /\ d["results"] \in {"absent", "hidden", "visible"} }

ExecInit ==
    /\ ExecIdle
    /\ dom \in Doms
    /\ inForm \in BOOLEAN

\* ---- executeTool / executeToolInner -------------------------------------
Caught_Rethrown(toolName, err) == [kind |-> "rejected", value |-> err]

\* The catch of executeTool (lines 111-115): how the promise settles when
\* executeToolInner throws err.
Caught(toolName, err) ==
    [kind |-> "value",
     value |-> mcpResult(<<"Error executing", toolName>> \o err.message)]

\* executeToolInner returns mcpResult(text) and executeTool passes it on.
Return(text) ==
    /\ xpc' = "returned"
    /\ outcome' = [raised |-> FALSE, error |-> NoErr,
                   settled |-> [kind |-> "value", value |-> mcpResult(text)]]
    /\ poll' = NoPoll

\* An exception leaves executeToolInner.
Throw(err) ==
    /\ xpc' = "returned"
    /\ outcome' = [raised |-> TRUE, error |-> err,
                   settled |-> Caught(call.tool.name, err)]
    /\ poll' = NoPoll

\* Lines 135-146: pick multi-step or simple mode.
EnterBody(exec) ==
    IF Len(exec.steps) > 0
    THEN /\ xpc' = "steps"
         /\ frames' = << Frame(exec.steps) >>
         /\ UNCHANGED <<fieldIdx, errors>>
    ELSE /\ xpc' = "fields"
         /\ fieldIdx' = 1
         /\ errors' = <<>>
         /\ UNCHANGED frames

\* The host calls execute(params, agent) of a registered tool: executeTool,
\* then executeToolInner up to the confirmation gate (lines 102-129).
executeTool(tool, params, agent) ==
    /\ xpc = "idle"
    /\ call' = [tool |-> tool, params |-> params, agent |-> agent,
                approved |-> FALSE]
    /\ UNCHANGED <<dom, inForm, now, nTicks, nMutations, effects, poll, outcome>>
    /\ IF agent # "none" /\ tool.destructive
       THEN /\ xpc' = "gate"
            /\ UNCHANGED <<frames, fieldIdx, errors>>
       ELSE EnterBody(tool.exec)

\* agent.requestUserInteraction settles (lines 127-133).  call.approved
\* remembers that the user confirmed this invocation.
GateAnswers == {"confirmed", "declined", "rejected"}

gateAnswered(answer) ==
    /\ xpc = "gate"
    /\ UNCHANGED <<dom, inForm, now, nTicks, nMutations, effects>>
    /\ IF answer = "confirmed"
       THEN /\ call' = [call EXCEPT !.approved = TRUE]
            /\ EnterBody(call.tool.exec)
            /\ UNCHANGED <<poll, outcome>>
       ELSE IF answer = "declined"
       THEN /\ Return(<<"Tool", call.tool.name, "cancelled by user.">>)
            /\ UNCHANGED <<call, frames, fieldIdx, errors>>
       ELSE /\ Throw(Err(<<"gate failed">>))
            /\ UNCHANGED <<call, frames, fieldIdx, errors>>

\* ---- executeStep ----------------------------------------------------------
Top == frames[Len(frames)]
AtStep == xpc = "steps" /\ Top.i <= Len(Top.steps)
Cur == Top.steps[Top.i]

StepReturns_KeepsNonNull(v) ==
    /\ frames' = [frames EXCEPT ![Len(frames)] =
                    [@ EXCEPT !.result = IF v # Null THEN v ELSE @,
                              !.i = @ + 1, !.log = Append(@, v)]]
    /\ xpc' = "steps"
    /\ poll' = NoPoll
    /\ UNCHANGED outcome

\* The executeStep call returns v: the enclosing loop stores it and goes on.
StepReturns(v) ==
    /\ frames' = [frames EXCEPT ![Len(frames)] =
                    [@ EXCEPT !.result = v, !.i = @ + 1, !.log = Append(@, v)]]
    /\ xpc' = "steps"
    /\ poll' = NoPoll
    /\ UNCHANGED outcome

StepThrows(err) == Throw(err) /\ UNCHANGED frames

Effect(op, el, value) == [op |-> op, el |-> el, value |-> value]
Does(op, el, value) == effects' = Append(effects, Effect(op, el, value))

execFrame == <<call, inForm, nTicks, nMutations, now, dom, fieldIdx, errors>>

\* case "navigate"
stepNavigate ==
    /\ AtStep /\ Cur.action = "navigate"
    /\ Does("navigate", "", interpolate(Cur.value, call.params))
    /\ StepReturns(Str(<<"Navigating to", interpolate(Cur.value, call.params)>>))
    /\ UNCHANGED execFrame

\* function fillField(selector, value): the error message, or null
fillField(sel, value) ==
    LET q == deepQuery(dom, sel)
    IN  IF q.threw THEN [threw |-> TRUE, err |-> q.err, msg |-> <<>>, wrote |-> FALSE]
        ELSE IF q.el = "absent"
        THEN [threw |-> FALSE, err |-> q.err,
              msg |-> <<"Element not found:", sel.el>>, wrote |-> FALSE]
        ELSE [threw |-> FALSE, err |-> q.err, msg |-> <<>>, wrote |-> TRUE]

\* case "fill" / case "select"
stepFill ==
    /\ AtStep /\ Cur.action \in {"fill", "select"}
    /\ LET value == interpolate(Cur.value, call.params)
           r == fillField(Cur.selector, value)
       IN  IF r.threw THEN StepThrows(r.err) /\ UNCHANGED effects
           ELSE IF r.wrote
           THEN Does("fill", Cur.selector.el, value) /\ StepReturns(Null)
           ELSE UNCHANGED effects /\ StepReturns(Str(<<"Error:">> \o r.msg))
    /\ UNCHANGED execFrame

\* case "extract"
stepExtract ==
    /\ AtStep /\ Cur.action = "extract"
    /\ LET r == extractResult(dom, Cur.selector, Cur.extract)
       IN  IF r.threw THEN StepThrows(r.err) ELSE StepReturns(r.value)
    /\ UNCHANGED effects
    /\ UNCHANGED execFrame

\* case "scroll"
stepScroll ==
    /\ AtStep /\ Cur.action = "scroll"
    /\ LET q == query(dom, Cur.selector)
       IN  IF q.threw THEN StepThrows(q.err) /\ UNCHANGED effects
           ELSE IF q.el = "absent"
           THEN /\ StepReturns(Str(<<"Error: Scroll target not found:", Cur.selector.el>>))
                /\ UNCHANGED effects
           ELSE Does("scroll", Cur.selector.el, "") /\ StepReturns(Null)
    /\ UNCHANGED execFrame

\* case "evaluate": whatever the script throws is caught and logged
stepEvaluate ==
    /\ AtStep /\ Cur.action = "evaluate"
    /\ IF interpolate(Cur.value, call.params) # ""
       THEN Does("evaluate", "", interpolate(Cur.value, call.params))
       ELSE UNCHANGED effects
    /\ StepReturns(Null)
    /\ UNCHANGED execFrame

stepCondition_NotAwaited ==
    /\ AtStep /\ Cur.action = "condition"
    /\ UNCHANGED effects
    /\ UNCHANGED execFrame
    /\ LET q == query(dom, Cur.selector)
           match == checkState(q.el, Cur.state)
           moved == [frames EXCEPT ![Len(frames)] =
                       [@ EXCEPT !.i = @ + 1, !.log = Append(@, Null)]]
       IN  IF q.threw THEN StepThrows(q.err)
           ELSE IF match
           THEN /\ frames' = Append(moved, Frame(Cur.thenSteps))
                /\ UNCHANGED <<xpc, poll, outcome>>
           ELSE IF Cur.hasElse
           THEN /\ frames' = Append(moved, Frame(Cur.elseSteps))
                /\ UNCHANGED <<xpc, poll, outcome>>
           ELSE StepReturns(Null)

\* case "condition": choose the branch and enter it (lines 310-316)
stepCondition ==
    /\ AtStep /\ Cur.action = "condition"
    /\ UNCHANGED effects
    /\ UNCHANGED execFrame
    /\ LET q == query(dom, Cur.selector)
           match == checkState(q.el, Cur.state)
       IN  IF q.threw THEN StepThrows(q.err)
           ELSE IF match
           THEN /\ frames' = Append(frames, Frame(Cur.thenSteps))
                /\ UNCHANGED <<xpc, poll, outcome>>
           ELSE IF Cur.hasElse
           THEN /\ frames' = Append(frames, Frame(Cur.elseSteps))
                /\ UNCHANGED <<xpc, poll, outcome>>
           ELSE StepReturns(Null)

branchDone_DropsResult ==
    /\ xpc = "steps" /\ Len(frames) > 1 /\ Top.i > Len(Top.steps)
    /\ frames' = [i \in 1..(Len(frames) - 1) |->
                    IF i = Len(frames) - 1
                    THEN [frames[i] EXCEPT !.result = Null, !.i = @ + 1,
                                           !.log = Append(@, Null)]
                    ELSE frames[i]]
    /\ UNCHANGED <<xpc, poll, outcome, effects>>
    /\ UNCHANGED execFrame

\* The loop over a branch ends: the condition step returns its last result
\* to the enclosing loop (lines 315-318).
branchDone ==
    /\ xpc = "steps" /\ Len(frames) > 1 /\ Top.i > Len(Top.steps)
    /\ frames' = [i \in 1..(Len(frames) - 1) |->
                    IF i = Len(frames) - 1
                    THEN [frames[i] EXCEPT !.result = Top.result, !.i = @ + 1,
                                           !.log = Append(@, Top.result)]
                    ELSE frames[i]]
    /\ UNCHANGED <<xpc, poll, outcome, effects>>
    /\ UNCHANGED execFrame

\* The loop over exec.steps ends (line 141).
stepsDone ==
    /\ xpc = "steps" /\ Len(frames) = 1 /\ Top.i > Len(Top.steps)
    /\ Return(IF Top.result # Null THEN StringOf(Top.result)
              ELSE <<"Executed", call.tool.name>>)
    /\ UNCHANGED <<frames, effects>>
    /\ UNCHANGED execFrame

\* ---- polling waits --------------------------------------------------------
Poll(kind, sel, state, timeout) ==
    [kind |-> kind, sel |-> sel, state |-> state, timeout |-> timeout, start |-> now]

\* The test of waitForSelector's check() (lines 447-449)
SelectorReady(st, state) ==
    \/ state = "hidden" /\ st = "absent"
    \/ state = "exists" /\ st # "absent"
    \/ state = "visible" /\ st # "absent" /\ isVisible(st)

\* The test of waitForClickable's check() (lines 471-474)
Clickable(st) == st # "absent" /\ isVisible(st) /\ st # "disabled"

TimedOut(p) == now - p.start > p.timeout

TimeoutError(sel) == Err(<<"Timeout waiting for", sel.el>>)

ClickFailed(sel) == Str(<<"Error: Click target not found or not clickable:", sel.el>>)

\* case "click": waitForClickable runs its first check at once
stepClick ==
    /\ AtStep /\ Cur.action = "click"
    /\ UNCHANGED execFrame
    /\ LET q == query(dom, Cur.selector)
       IN  IF q.threw THEN StepThrows(q.err) /\ UNCHANGED effects
           ELSE IF Clickable(q.el)
           THEN Does("click", Cur.selector.el, "") /\ StepReturns(Null)
           ELSE /\ poll' = Poll("clickable", Cur.selector, "", DefaultTimeout)
                /\ xpc' = "polling"
                /\ UNCHANGED <<frames, outcome, effects>>

\* case "wait": waitForSelector runs its first check at once; a rejection is
\* swallowed by .catch(() => null)
stepWait ==
    /\ AtStep /\ Cur.action = "wait"
    /\ UNCHANGED effects
    /\ UNCHANGED execFrame
    /\ LET q == query(dom, Cur.selector)
       IN  IF q.threw THEN StepReturns(Null)
           ELSE IF SelectorReady(q.el, Cur.state)
           THEN StepReturns(Null)
           ELSE /\ poll' = Poll("wait", Cur.selector, Cur.state, Cur.timeout)
                /\ xpc' = "polling"
                /\ UNCHANGED <<frames, outcome>>

\* requestAnimationFrame(check) of waitForClickable.  An exception thrown
\* by query inside the callback settles nothing: the promise stays pending.
clickPoll ==
    /\ xpc = "polling" /\ poll.kind = "clickable"
    /\ UNCHANGED execFrame
    /\ LET q == query(dom, poll.sel)
       IN  IF q.threw
           THEN xpc' = "hung" /\ UNCHANGED <<frames, poll, outcome, effects>>
           ELSE IF Clickable(q.el)
           THEN Does("click", poll.sel.el, "") /\ StepReturns(Null)
           ELSE /\ TimedOut(poll)
                /\ StepReturns(ClickFailed(poll.sel))
                /\ UNCHANGED effects

waitPoll_Hard ==
    /\ xpc = "polling" /\ poll.kind = "wait"
    /\ UNCHANGED effects
    /\ UNCHANGED execFrame
    /\ LET q == query(dom, poll.sel)
       IN  IF q.threw
           THEN xpc' = "hung" /\ UNCHANGED <<frames, poll, outcome>>
           ELSE IF SelectorReady(q.el, poll.state) THEN StepReturns(Null)
           ELSE TimedOut(poll) /\ StepThrows(TimeoutError(poll.sel))

waitPoll_ReportsTimeout ==
    /\ xpc = "polling" /\ poll.kind = "wait"
    /\ UNCHANGED effects
    /\ UNCHANGED execFrame
    /\ LET q == query(dom, poll.sel)
       IN  IF q.threw
           THEN xpc' = "hung" /\ UNCHANGED <<frames, poll, outcome>>
           ELSE IF SelectorReady(q.el, poll.state) THEN StepReturns(Null)
           ELSE TimedOut(poll) /\ StepReturns(Str(TimeoutError(poll.sel).message))

\* requestAnimationFrame(check) of the wait step's waitForSelector
waitPoll ==
    /\ xpc = "polling" /\ poll.kind = "wait"
    /\ UNCHANGED effects
    /\ UNCHANGED execFrame
    /\ LET q == query(dom, poll.sel)
       IN  IF q.threw
           THEN xpc' = "hung" /\ UNCHANGED <<frames, poll, outcome>>
           ELSE /\ SelectorReady(q.el, poll.state) \/ TimedOut(poll)
                /\ StepReturns(Null)

\* ---- simple mode ----------------------------------------------------------
Fields == call.tool.exec.fields
AtField == xpc = "fields" /\ fieldIdx <= Len(Fields)
AfterFields == xpc = "fields" /\ fieldIdx > Len(Fields)

simpleFrame == <<call, inForm, nTicks, nMutations, now, dom, frames>>

FillOutcome_ErrorThrows(threw, err, msg, op, el) ==
    [threw |-> threw \/ msg # <<>>, err |-> err, msg |-> msg, op |-> op, el |-> el]

FillOutcome(threw, err, msg, op, el) ==
    [threw |-> threw, err |-> err, msg |-> msg, op |-> op, el |-> el]

\* function fillToolField(field, value)
fillToolField(field, value) ==
    IF field.type = "radio"
    THEN LET matching == {i \in DOMAIN field.options : field.options[i].value = value}
         IN  IF matching = {}
             THEN FillOutcome(FALSE, Err(<<>>),
                              <<"No radio option matches value", value>>, "", "")
             ELSE LET option == field.options[CHOOSE i \in matching :
                                                 \A j \in matching : i <= j]
                      q == deepQuery(dom, option.selector)
                  IN  IF q.threw THEN FillOutcome(TRUE, q.err, <<>>, "", "")
                      ELSE IF q.el = "absent"
                      THEN FillOutcome(FALSE, q.err,
                               <<"Radio option element not found:", option.selector.el>>,
                               "", "")
                      ELSE FillOutcome(FALSE, q.err, <<>>, "check", option.selector.el)
    ELSE LET r == fillField(field.selector, value)
         IN  FillOutcome(r.threw, r.err, r.msg,
                         IF r.wrote THEN "fill" ELSE "", field.selector.el)

\* Lines 147-152 for a field whose parameter is present
fillNextField ==
    /\ AtField /\ Fields[fieldIdx].name \in DOMAIN call.params
    /\ UNCHANGED simpleFrame
    /\ LET field == Fields[fieldIdx]
           value == call.params[field.name]
           r == fillToolField(field, value)
       IN  IF r.threw
           THEN Throw(r.err) /\ UNCHANGED <<fieldIdx, errors, effects>>
           ELSE /\ fieldIdx' = fieldIdx + 1
                /\ errors' = IF r.msg # <<>>
                             THEN Append(errors, <<"Field", field.name>> \o r.msg)
                             ELSE errors
                /\ IF r.op # "" THEN Does(r.op, r.el, value) ELSE UNCHANGED effects
                /\ UNCHANGED <<xpc, poll, outcome>>

\* Lines 147-149 for a field whose parameter is undefined
skipField ==
    /\ AtField /\ Fields[fieldIdx].name \notin DOMAIN call.params
    /\ fieldIdx' = fieldIdx + 1
    /\ UNCHANGED <<errors, effects, xpc, poll, outcome>>
    /\ UNCHANGED simpleFrame

RECURSIVE JoinAll(_)
JoinAll(lines) == IF lines = <<>> THEN <<>> ELSE Head(lines) \o JoinAll(Tail(lines))

ErrorSuffix_Dropped == <<>>

\* const errorSuffix = errors.length > 0 ? `\nWarnings:\n${errors.join("\n")}` : ""
ErrorSuffix == IF Len(errors) > 0 THEN <<"Warnings:">> \o JoinAll(errors) ELSE <<>>

\* Lines 159-183: autosubmit with the "enter" strategy
submitEnter ==
    /\ AfterFields
    /\ call.tool.exec.autosubmit /\ call.tool.exec.submitAction = "enter"
    /\ UNCHANGED <<fieldIdx, errors>>
    /\ UNCHANGED simpleFrame
    /\ LET exec == call.tool.exec
           q == IF Len(exec.fields) > 0
                THEN deepQuery(dom, exec.fields[Len(exec.fields)].selector)
                ELSE query(dom, exec.selector)
           el == IF Len(exec.fields) > 0
                 THEN exec.fields[Len(exec.fields)].selector.el
                 ELSE exec.selector.el
       IN  IF q.threw THEN Throw(q.err) /\ UNCHANGED effects
           ELSE IF q.el # "absent"
           THEN /\ Does(IF inForm THEN "requestSubmit" ELSE "enter", el, "")
                /\ Return(<<"Submitted", call.tool.name>> \o ErrorSuffix)
           ELSE /\ UNCHANGED effects
                /\ Return(<<"Error: Submit target not found for", call.tool.name,
                            "Selector:", exec.selector.el>> \o ErrorSuffix)

\* Lines 184-196: autosubmit with the "click" strategy
submitClick ==
    /\ AfterFields
    /\ call.tool.exec.autosubmit /\ call.tool.exec.submitAction # "enter"
    /\ UNCHANGED <<fieldIdx, errors>>
    /\ UNCHANGED simpleFrame
    /\ LET exec == call.tool.exec
           submitSel == IF exec.hasSubmitSelector THEN exec.submitSelector
                        ELSE SubmitWithin(exec.selector)
           submitEl == query(dom, submitSel)
           fallback == query(dom, exec.selector)
       IN  IF submitEl.threw THEN Throw(submitEl.err) /\ UNCHANGED effects
           ELSE IF submitEl.el # "absent"
           THEN /\ Does("click", submitSel.el, "")
                /\ Return(<<"Submitted", call.tool.name>> \o ErrorSuffix)
           ELSE IF fallback.threw THEN Throw(fallback.err) /\ UNCHANGED effects
           ELSE IF fallback.el # "absent"
           THEN /\ Does("click", exec.selector.el, "")
                /\ Return(<<"Submitted", call.tool.name>> \o ErrorSuffix)
           ELSE /\ UNCHANGED effects
                /\ Return(<<"Error: Submit button not found for", call.tool.name,
                            "Selector:",
                            IF exec.hasSubmitSelector THEN exec.submitSelector.el
                            ELSE exec.selector.el>> \o ErrorSuffix)

\* Lines 199-201: no submit, and some field could not be filled
fillErrors ==
    /\ AfterFields
    /\ ~call.tool.exec.autosubmit /\ Len(errors) > 0
    /\ Return(<<"Error filling fields for", call.tool.name>> \o JoinAll(errors))
    /\ UNCHANGED <<fieldIdx, errors, effects>>
    /\ UNCHANGED simpleFrame

\* Lines 203-212: wait for the result, by selector or by a fixed delay
resultWait ==
    /\ AfterFields
    /\ ~call.tool.exec.autosubmit /\ Len(errors) = 0
    /\ UNCHANGED <<fieldIdx, errors, effects>>
    /\ UNCHANGED simpleFrame
    /\ LET exec == call.tool.exec
           q == query(dom, exec.resultWait)
       IN  IF exec.resultWait # NoSel
           THEN IF q.threw
                THEN IF exec.resultRequired THEN Throw(q.err)
                     ELSE xpc' = "extract" /\ UNCHANGED <<poll, outcome>>
                ELSE IF SelectorReady(q.el, "visible")
                THEN xpc' = "extract" /\ UNCHANGED <<poll, outcome>>
                ELSE /\ poll' = Poll("result", exec.resultWait, "visible", DefaultTimeout)
                     /\ xpc' = "polling"
                     /\ UNCHANGED outcome
           ELSE IF exec.resultDelay # 0
           THEN /\ poll' = Poll("delay", NoSel, "", exec.resultDelay)
                /\ xpc' = "delay"
                /\ UNCHANGED outcome
           ELSE xpc' = "extract" /\ UNCHANGED <<poll, outcome>>

resultPoll_AlwaysSoft ==
    /\ xpc = "polling" /\ poll.kind = "result"
    /\ UNCHANGED <<fieldIdx, errors, effects>>
    /\ UNCHANGED simpleFrame
    /\ LET q == query(dom, poll.sel)
       IN  IF q.threw
           THEN xpc' = "hung" /\ UNCHANGED <<poll, outcome>>
           ELSE /\ SelectorReady(q.el, poll.state) \/ TimedOut(poll)
                /\ xpc' = "extract" /\ poll' = NoPoll /\ UNCHANGED outcome

\* requestAnimationFrame(check) of the result wait: a timeout is thrown when
\* the result is required and swallowed otherwise (lines 205-209)
resultPoll ==
    /\ xpc = "polling" /\ poll.kind = "result"
    /\ UNCHANGED <<fieldIdx, errors, effects>>
    /\ UNCHANGED simpleFrame
    /\ LET q == query(dom, poll.sel)
       IN  IF q.threw
           THEN xpc' = "hung" /\ UNCHANGED <<poll, outcome>>
           ELSE IF SelectorReady(q.el, poll.state)
           THEN xpc' = "extract" /\ poll' = NoPoll /\ UNCHANGED outcome
           ELSE /\ TimedOut(poll)
                /\ IF call.tool.exec.resultRequired
                   THEN Throw(TimeoutError(poll.sel))
                   ELSE xpc' = "extract" /\ poll' = NoPoll /\ UNCHANGED outcome

\* setTimeout(r, exec.resultDelay) fires (line 211)
delayElapsed ==
    /\ xpc = "delay"
    /\ now - poll.start >= poll.timeout
    /\ xpc' = "extract"
    /\ poll' = NoPoll
    /\ UNCHANGED <<fieldIdx, errors, effects, outcome>>
    /\ UNCHANGED simpleFrame

\* Lines 214-226: extract the result and return
extractAndReturn ==
    /\ xpc = "extract"
    /\ UNCHANGED <<fieldIdx, errors, effects>>
    /\ UNCHANGED simpleFrame
    /\ LET exec == call.tool.exec
           r == extractResult(dom, exec.resultSelector, exec.resultExtract)
       IN  IF exec.resultSelector = NoSel
           THEN Return(<<"Executed", call.tool.name>>)
           ELSE IF r.threw THEN Throw(r.err)
           ELSE IF r.value.t = "list" THEN Return(Join(r.value.s))
           ELSE Return(IF r.value # Null THEN StringOf(r.value)
                       ELSE <<"No result found">>)

\* ---- the environment while an invocation is suspended ---------------------
\* The invocation is suspended in a wait.  (What the page does while the
\* confirmation gate is open is covered by the choice of the initial page:
\* the invocation has not touched the page by then.)
Suspended == xpc \in {"polling", "delay"}

ClockSteps == {1000, 3000}

\* Date.now() moves on.
clockAdvances(d) ==
    /\ Suspended
    /\ nTicks < MaxTicks
    /\ nTicks' = nTicks + 1
    /\ now' = now + d
    /\ UNCHANGED <<xpc, call, frames, poll, nMutations, dom, inForm, errors,
                   fieldIdx, effects, outcome>>

\* The page shows, hides, enables or removes an element.
pageMutates(el, st) ==
    /\ Suspended
    /\ nMutations < MaxMutations
    /\ nMutations' = nMutations + 1
    /\ dom[el] # st
    /\ dom' = [dom EXCEPT ![el] = st]
    /\ dom' \in Doms
    /\ UNCHANGED <<xpc, call, frames, poll, now, nTicks, inForm, errors,
                   fieldIdx, effects, outcome>>

ExecNext ==
    \/ \E tool \in ExecTools, params \in ExecParams, agent \in Agents :
          executeTool(tool, params, agent) /\ UNCHANGED notExec
    \/ \E answer \in GateAnswers : gateAnswered(answer) /\ UNCHANGED notExec
    \/ stepNavigate /\ UNCHANGED notExec
    \/ stepClick /\ UNCHANGED notExec
    \/ stepFill /\ UNCHANGED notExec
    \/ stepWait /\ UNCHANGED notExec
    \/ stepExtract /\ UNCHANGED notExec
    \/ stepScroll /\ UNCHANGED notExec
    \/ stepCondition /\ UNCHANGED notExec
    \/ stepEvaluate /\ UNCHANGED notExec
    \/ branchDone /\ UNCHANGED notExec
    \/ stepsDone /\ UNCHANGED notExec
    \/ clickPoll /\ UNCHANGED notExec
    \/ waitPoll /\ UNCHANGED notExec
    \/ fillNextField /\ UNCHANGED notExec
    \/ skipField /\ UNCHANGED notExec
    \/ submitEnter /\ UNCHANGED notExec
    \/ submitClick /\ UNCHANGED notExec
    \/ fillErrors /\ UNCHANGED notExec
    \/ resultWait /\ UNCHANGED notExec
    \/ resultPoll /\ UNCHANGED notExec
    \/ delayElapsed /\ UNCHANGED notExec
    \/ extractAndReturn /\ UNCHANGED notExec
    \/ \E d \in ClockSteps : clockAdvances(d) /\ UNCHANGED notExec
    \/ \E el \in Elements, st \in DomStates : pageMutates(el, st) /\ UNCHANGED notExec

(***************************************************************************)
(* Content script: selector resolution over a document                     *)
(***************************************************************************)
\* No function has been called, or none has returned.
NoArgs == [fn |-> "none"]

\* An element of the document: its tag, its textContent (a sequence of
\* characters), whether it lives in a shadow tree, and whether it has a
\* descendant that the suffix selector matches.  A document is the
\* sequence of its elements in document order.
Element(tag, text, shadow, child) ==
    [tag |-> tag, text |-> text, shadow |-> shadow, child |-> child]

ElementTexts == { <<>>, <<"s">>, <<" ", "s", " ", " ", "x">>, <<"x">> }

DocElements ==
    { Element(tag, text, shadow, child) :
        tag \in {"button", "div"}, text \in ElementTexts,
        shadow \in BOOLEAN, child \in BOOLEAN }

Documents == SeqsUpTo(DocElements, MaxElements)

\* A selector after HAS_TEXT_RE: base, and for base:has-text("t") suffix the
\* text t and whether a suffix follows.
DocSelector(base, hasText, text, suffix) ==
    [base |-> base, hasText |-> hasText, text |-> text, suffix |-> suffix]

DocSelectors ==
    { DocSelector("button", FALSE, <<>>, FALSE) }
    \cup { DocSelector("button", TRUE, text, suffix) :
             text \in { <<"s">>, <<" ", "s">>, <<"s", " ", "x">> },
             suffix \in BOOLEAN }

\* .replace(/\s+/g, " ")
RECURSIVE CollapseSpaces(_)
CollapseSpaces(t) ==
    IF Len(t) <= 1 THEN t
    ELSE IF t[1] = " " /\ t[2] = " " THEN CollapseSpaces(Tail(t))
    ELSE <<t[1]>> \o CollapseSpaces(Tail(t))

\* .trim()
RECURSIVE TrimStart(_)
TrimStart(t) == IF t # <<>> /\ t[1] = " " THEN TrimStart(Tail(t)) ELSE t

RECURSIVE TrimEnd(_)
TrimEnd(t) ==
    IF t # <<>> /\ t[Len(t)] = " " THEN TrimEnd(SubSeq(t, 1, Len(t) - 1)) ELSE t

Trim(t) == TrimEnd(TrimStart(t))

\* String.prototype.includes
Includes(hay, needle) ==
    \E i \in 0..(Len(hay) - Len(needle)) : SubSeq(hay, i + 1, i + Len(needle)) = needle

\* function normalizeText(el)
normalizeText(el) == Trim(CollapseSpaces(el.text))

\* function matchesText(el, text)
matchesText(el, text) == Includes(normalizeText(el), Trim(text))

deepQueryAll_LightOnly(doc, base) ==
    SelectSeq([i \in DOMAIN doc |-> i],
              LAMBDA i : doc[i].tag = base /\ ~doc[i].shadow)

\* function deepQueryAll(selector): the matches of the root in document
\* order, then those of the shadow roots.  Elements are named by their
\* position in the document.
deepQueryAll(doc, base) ==
    LET all == [i \in DOMAIN doc |-> i]
    IN  SelectSeq(all, LAMBDA i : doc[i].tag = base /\ ~doc[i].shadow)
        \o SelectSeq(all, LAMBDA i : doc[i].tag = base /\ doc[i].shadow)

\* What a query returns: null, an element, or the suffix descendant of one.
NoElement == [found |-> FALSE, idx |-> 0, part |-> ""]
TheElement(i) == [found |-> TRUE, idx |-> i, part |-> "self"]
SuffixOf(i) == [found |-> TRUE, idx |-> i, part |-> "suffix"]

\* suffix ? el.querySelector(suffix) : el
Descend(doc, i, suffix) ==
    IF ~suffix THEN TheElement(i)
    ELSE IF doc[i].child THEN SuffixOf(i) ELSE NoElement

\* function deepQuery(selector) over a document: the first match of the
\* root, else the first match of a shadow root.
deepQueryDoc(doc, base) ==
    LET els == deepQueryAll(doc, base)
    IN  IF els = <<>> THEN NoElement ELSE TheElement(els[1])

queryDoc_LastMatch(doc, sel) ==
    IF ~sel.hasText THEN deepQueryDoc(doc, sel.base)
    ELSE LET els == deepQueryAll(doc, sel.base)
             hits == SelectSeq(els, LAMBDA i : matchesText(doc[i], sel.text))
         IN  IF hits = <<>> THEN NoElement
             ELSE Descend(doc, hits[Len(hits)], sel.suffix)

\* function query(selector), lines 559-573
queryDoc(doc, sel) ==
    IF ~sel.hasText THEN deepQueryDoc(doc, sel.base)
    ELSE LET els == deepQueryAll(doc, sel.base)
             hits == SelectSeq(els, LAMBDA i : matchesText(doc[i], sel.text))
         IN  IF hits = <<>> THEN NoElement
             ELSE Descend(doc, hits[1], sel.suffix)

\* function queryAll(selector), lines 575-595
queryAll(doc, sel) ==
    LET els == deepQueryAll(doc, sel.base)
        hits == SelectSeq(els, LAMBDA i : matchesText(doc[i], sel.text))
        kept == SelectSeq(hits, LAMBDA i : Descend(doc, i, sel.suffix).found)
    IN  IF ~sel.hasText THEN [k \in DOMAIN els |-> TheElement(els[k])]
        ELSE [k \in DOMAIN kept |-> Descend(doc, kept[k], sel.suffix)]

QueryArgs(doc, sel) == [fn |-> "query", doc |-> doc, sel |-> sel]

QueryInit ==
    /\ fnIn \in {QueryArgs(doc, sel) : doc \in Documents, sel \in DocSelectors}
    /\ fnOut = NoArgs

\* query(selector) is called
applyQuery ==
    /\ fnOut = NoArgs
    /\ fnOut' = [fn |-> "query", one |-> queryDoc(fnIn.doc, fnIn.sel), all |-> <<>>]
    /\ UNCHANGED fnIn

\* queryAll(selector) is called
applyQueryAll ==
    /\ fnOut = NoArgs
    /\ fnOut' = [fn |-> "queryAll", one |-> NoElement, all |-> queryAll(fnIn.doc, fnIn.sel)]
    /\ UNCHANGED fnIn

QueryNext ==
    \/ applyQuery /\ UNCHANGED notFn
    \/ applyQueryAll /\ UNCHANGED notFn

(***************************************************************************)
(* background.ts: the dedup key as a function of the URL                   *)
(***************************************************************************)
\* The URLs whose keys are compared.
KeyUrls ==
    { RawUrl(TRUE, scheme, hostname, port, pathname, search) :
        scheme \in {"http", "https"},
        hostname \in { <<"a", "com">>, <<"www", "a", "com">>, <<"b", "com">> },
        port \in {"", "80", "443", "8080"},
        pathname \in {"/", "/x"},
        search \in {"", "?q=1"} }

KeyArgs(u, v) == [fn |-> "normalize", u |-> u, v |-> v]

KeyInit ==
    /\ fnIn \in {KeyArgs(u, v) : u \in KeyUrls, v \in KeyUrls}
    /\ fnOut = NoArgs

\* Lines 14-21 of handleNavigation run on each of the two URLs.
applyNormalize ==
    /\ fnOut = NoArgs
    /\ fnOut' = [fn |-> "normalize", u |-> NormalizedUrl(fnIn.u), v |-> NormalizedUrl(fnIn.v)]
    /\ UNCHANGED fnIn

KeyNext == applyNormalize /\ UNCHANGED notFn

(***************************************************************************)
(* Specifications                                                          *)
(***************************************************************************)
RegQuiet ==
    /\ RegIdle
    /\ modelContext = "none"
    /\ forms = {}

NavQuiet == NavInit

ExecQuiet ==
    /\ ExecIdle
    /\ dom = [el \in Elements |-> "absent"]
    /\ inForm = FALSE

\* No function has been applied.
FnQuiet == fnIn = NoArgs /\ fnOut = NoArgs

NavStart == NavInit /\ RegQuiet /\ ExecQuiet /\ FnQuiet

SpecNav ==
    /\ NavStart
    /\ [][NavNext]_vars

RegStart == RegInit /\ NavQuiet /\ ExecQuiet /\ FnQuiet

SpecReg ==
    /\ RegStart
    /\ [][RegNext]_vars

ExecStart == ExecInit /\ NavQuiet /\ RegQuiet /\ FnQuiet

SpecExec ==
    /\ ExecStart
    /\ [][ExecNext]_vars

\* The steps that happen by themselves once an invocation is under way:
\* the continuations of the invocation, the animation-frame callbacks of
\* its polls, the timer of its delay, the answer of the confirmation gate
\* and the clock.  The host's call and the page's mutations are left out:
\* nothing obliges them to happen.
ExecProgress ==
    \/ \E answer \in GateAnswers : gateAnswered(answer) /\ UNCHANGED notExec
    \/ (stepNavigate \/ stepClick \/ stepFill \/ stepWait \/ stepExtract
          \/ stepScroll \/ stepCondition \/ stepEvaluate \/ branchDone
          \/ stepsDone) /\ UNCHANGED notExec
    \/ (clickPoll \/ waitPoll \/ resultPoll \/ delayElapsed) /\ UNCHANGED notExec
    \/ (fillNextField \/ skipField \/ submitEnter \/ submitClick \/ fillErrors
          \/ resultWait \/ extractAndReturn) /\ UNCHANGED notExec
    \/ \E d \in ClockSteps : clockAdvances(d) /\ UNCHANGED notExec

\* The interpreter under the scheduling the browser gives it: enabled
\* continuations, frame callbacks and timers run, and the clock moves.
SpecExecFair ==
    /\ ExecStart
    /\ [][ExecNext]_vars
    /\ WF_vars(ExecProgress)

QueryStart == QueryInit /\ NavQuiet /\ RegQuiet /\ ExecQuiet

SpecQuery ==
    /\ QueryStart
    /\ [][QueryNext]_vars

KeyStart == KeyInit /\ NavQuiet /\ RegQuiet /\ ExecQuiet

SpecKey ==
    /\ KeyStart
    /\ [][KeyNext]_vars

(***************************************************************************)
(* Properties of the navigation coordinator (checked under SpecNav)        *)
(***************************************************************************)
\* The step resumes invocation h with the result of its lookup.
LookupCompletes(h) ==
    /\ h \in pending /\ h.pc = "lookup"
    /\ ev'.kind = "resolved" /\ ev'.hid = h.hid

\* The step delivers a navigation event of the given kind.
Delivers(kind) == ev'.kind = kind /\ nEvents' = nEvents + 1

\* No continuation of invocation hid is left to run.
Finished(hid) == \A g \in pending' : g.hid # hid

\* C1: a lookup response that completes after a newer navigation of the
\* same tab has been assigned a sequence number is discarded: the session
\* entry and the registered domain are not written and no CONFIGS_FOUND
\* message is sent, then or later.
C1_StaleResponseDiscarded ==
    [][\A h \in pending :
          (LookupCompletes(h) /\ MapHas(navSeq, h.tab) /\ navSeq[h.tab] > h.seq)
          => /\ session' = session
             /\ registeredDomain' = registeredDomain
             /\ sent' = sent
             /\ Finished(h.hid)]_vars

\* A lookup returning configs has completed after a newer navigation of
\* its tab took a later sequence number.
C1_Witness ==
    /\ ev.kind = "resolved" /\ Len(ev.configs) > 0
    /\ MapHas(navSeq, ev.tab) /\ navSeq[ev.tab] > ev.seq

\* C2: an in-page (history-state) navigation event whose normalized URL
\* equals the last normalized URL processed for its tab issues no lookup.
C2_DuplicateHistoryNoLookup ==
    [][(/\ Delivers("history")
        /\ ev'.url.valid
        /\ MapHas(lastUrl, ev'.tab)
        /\ lastUrl[ev'.tab] = NormalizedUrl(ev'.url))
       => /\ lookups' = lookups
          /\ pending' = pending]_vars

\* A top-frame history event repeated the tab's dedup key through a raw URL
\* that differs in scheme, www. prefix and query string.
C2_Witness ==
    /\ ev.kind = "history" /\ ev.frameId = 0 /\ ev.url.valid
    /\ ev.url.search # "" /\ Head(ev.url.hostname) = "www"
    /\ MapHas(lastUrl, ev.tab) /\ lastUrl[ev.tab] = NormalizedUrl(ev.url)
    /\ lookups[ev.tab] = 1
    /\ \A g \in pending : g.hid # ev.hid

\* C3: when a non-stale lookup returns zero configs and the domain equals
\* the tab's registered domain, the session entry and the registered domain
\* stay as they were and no notification is sent, then or later.
C3_EmptySameDomainKeepsState ==
    [][\A h \in pending :
          (/\ LookupCompletes(h)
           /\ ~IsStale(h)
           /\ Len(ev'.configs) = 0
           /\ MapHas(registeredDomain, h.tab)
           /\ registeredDomain[h.tab] = h.domain)
          => /\ session' = session
             /\ registeredDomain' = registeredDomain
             /\ sent' = sent
             /\ Finished(h.hid)]_vars

\* An empty result arrived, not stale, for a tab whose registered domain is
\* the lookup's domain and whose session entry holds configs.
C3_Witness ==
    /\ ev.kind = "resolved" /\ Len(ev.configs) = 0
    /\ MapHas(navSeq, ev.tab) /\ navSeq[ev.tab] = ev.seq
    /\ MapHas(registeredDomain, ev.tab) /\ registeredDomain[ev.tab] = ev.domain
    /\ MapHas(session, ev.tab) /\ Len(session[ev.tab].configs) > 0
    /\ session[ev.tab].domain = ev.domain

\* C4: when a non-stale lookup returns zero configs and the domain differs
\* from the tab's registered domain, the session entry is overwritten with
\* {configs: [], domain: new domain}, and the invocation goes on to send a
\* CONFIGS_FOUND message carrying the empty list.
C4_EmptyDomainChangeClears ==
    [][\A h \in pending :
          /\ (/\ LookupCompletes(h)
              /\ ~IsStale(h)
              /\ Len(ev'.configs) = 0
              /\ MapHas(registeredDomain, h.tab)
              /\ registeredDomain[h.tab] # h.domain)
             => /\ MapHas(session', h.tab)
                /\ session'[h.tab] = [configs |-> <<>>, domain |-> h.domain]
                /\ \E g \in pending' :
                      g.hid = h.hid /\ g.pc = "stored" /\ g.configs = <<>>
          /\ (/\ h.pc = "stored" /\ h.configs = <<>>
              /\ ev'.kind = "notified" /\ ev'.hid = h.hid)
             => sent' = Append(sent, [tab |-> h.tab, type |-> "CONFIGS_FOUND",
                                      configs |-> <<>>])]_vars

\* The empty-list notification has been sent for a tab whose session entry
\* was overwritten with the new domain and no configs.
C4_Witness ==
    /\ ev.kind = "notified" /\ Len(ev.configs) = 0
    /\ Len(sent) >= 2
    /\ sent[Len(sent)] = [tab |-> ev.tab, type |-> "CONFIGS_FOUND", configs |-> <<>>]
    /\ MapHas(session, ev.tab)
    /\ session[ev.tab] = [configs |-> <<>>, domain |-> ev.domain]

\* C5: every completed top-frame full-page navigation with a well-formed
\* URL issues a lookup for its tab, whatever the tab's dedup key was.
C5_FullNavigationAlwaysLooksUp ==
    [][(Delivers("completed") /\ ev'.frameId = 0 /\ ev'.url.valid)
       => /\ lookups'[ev'.tab] = lookups[ev'.tab] + 1
          /\ \E g \in pending' :
                /\ g.hid = ev'.hid /\ g.tab = ev'.tab /\ g.pc = "lookup"
                /\ g.url = NormalizedUrl(ev'.url)]_vars

\* A reload: the full-page navigation carried the URL the tab's previous
\* event had just looked up, and issued a second lookup for it.
C5_Witness ==
    /\ ev.kind = "completed" /\ ev.frameId = 0 /\ ev.url.valid
    /\ \E g1, g2 \in pending :
          /\ g1.tab = ev.tab /\ g2.tab = ev.tab
          /\ g2.hid = ev.hid /\ g1.hid = ev.hid - 1
          /\ g1.url = g2.url /\ g1.pc = "lookup" /\ g2.pc = "lookup"

(***************************************************************************)
(* Properties of the tool registrar (checked under SpecReg)                *)
(***************************************************************************)
\* The registrations the last registerTools call handed to the host, in
\* the order of the calls.
Handed ==
    IF hostCalls # <<>> /\ hostCalls[1].op = "provideContext"
    THEN hostCalls[1].tools
    ELSE LET regs == SelectSeq(hostCalls, LAMBDA c : c.op = "registerTool")
         IN  [i \in DOMAIN regs |-> regs[i].tools[1]]

\* The tool descriptors of the last config list, in config then tool order.
Offered == FlattenTools(regCall.msg.configs)

DistinctNames(tools) ==
    \A i, j \in DOMAIN tools : tools[i].name = tools[j].name => i = j

\* Position of the first descriptor in Offered that satisfies P and carries
\* the given name (0 when there is none).
FirstWhere(name, P(_)) ==
    LET hits == {i \in DOMAIN Offered : Offered[i].name = name /\ P(Offered[i])}
    IN  IF hits = {} THEN 0 ELSE CHOOSE i \in hits : \A j \in hits : i <= j

\* C6: the registrar never hands the host a tool whose name is carried by a
\* form[toolname] of the page, whichever way the tools are delivered.
C6_NoDeclaredNameHanded ==
    regCall.ran =>
        /\ \A i \in DOMAIN Handed : Handed[i].name \notin regCall.declared
        /\ \A name \in Range(registeredTools) : name \notin regCall.declared

\* Incremental delivery handed some tools while an executable tool of the
\* list carried a page-declared name.
C6_Witness ==
    /\ regCall.ran /\ modelContext = "incremental"
    /\ Handed # <<>>
    /\ \E i \in DOMAIN Offered :
          Offered[i].execution /\ Offered[i].name \in regCall.declared

\* The same under atomic delivery.
C6_WitnessAtomic ==
    /\ regCall.ran /\ modelContext = "provideContext"
    /\ Handed # <<>>
    /\ \E i \in DOMAIN Offered :
          Offered[i].execution /\ Offered[i].name \in regCall.declared

\* C7 as stated: the handed tools have distinct names and each is the first
\* occurrence of its name in config order then tool order.
C7_FirstOccurrenceWins ==
    regCall.ran =>
        /\ DistinctNames(Handed)
        /\ \A i \in DOMAIN Handed :
              LET first == FirstWhere(Handed[i].name, LAMBDA t : TRUE)
              IN  first # 0 /\ Offered[first].id = Handed[i].id

\* C7 (amended): the handed tools have pairwise distinct names and each is
\* the first occurrence, in config order then tool order, among the tools of
\* its name that have an execution body; later duplicates are dropped.
C7_FirstExecutableWins ==
    regCall.ran =>
        /\ DistinctNames(Handed)
        /\ \A i \in DOMAIN Handed :
              LET first == FirstWhere(Handed[i].name, LAMBDA t : t.execution)
              IN  first # 0 /\ Offered[first].id = Handed[i].id

\* A list with two executable tools of one name, spread over two configs,
\* was registered, and one tool of that name was handed over.
C7_Witness ==
    /\ regCall.ran
    /\ Len(regCall.msg.configs) = 2
    /\ \E i, j \in DOMAIN Offered :
          /\ i < j /\ Offered[i].name = Offered[j].name
          /\ Offered[i].execution /\ Offered[j].execution
          /\ Offered[i].id # Offered[j].id
          /\ \E k \in DOMAIN Handed : Handed[k].id = Offered[i].id

\* C8: a tool descriptor without an execution body is never registered with
\* the host and never puts its name in the tracked name set.
C8_InertToolsNotRegistered ==
    /\ \A name \in DOMAIN hostTools : hostTools[name].execution
    /\ regCall.ran =>
          /\ \A i \in DOMAIN Handed : Handed[i].execution
          /\ \A name \in Range(registeredTools) :
                \E i \in DOMAIN Offered :
                    Offered[i].name = name /\ Offered[i].execution

\* A list holding a tool without execution body was registered: its name is
\* not tracked while another tool of the list is.
C8_Witness ==
    /\ regCall.ran
    /\ registeredTools # <<>>
    /\ \E i \in DOMAIN Offered :
          /\ ~Offered[i].execution
          /\ Offered[i].name \notin Range(registeredTools)
          /\ Offered[i].name \notin DOMAIN hostTools

\* C9: calling the registrar again with the list of the previous call, the
\* page-declared names being the same, leaves the tracked names and the
\* host's tools as the first call left them: no name twice, none stale.
C9_RegistrarIdempotent ==
    [][(/\ nMsgs' = nMsgs + 1
        /\ regCall.ran /\ regCall'.ran
        /\ regCall'.msg = regCall.msg
        /\ regCall'.declared = regCall.declared)
       => /\ registeredTools' = registeredTools
          /\ hostTools' = hostTools
          /\ Cardinality(Range(registeredTools')) = Len(registeredTools')
          /\ DistinctNames(Handed')
          /\ (modelContext # "registerOnly"
              => DOMAIN hostTools' = Range(registeredTools'))]_vars

\* The registrar ran twice in a row on one list that yields two tools, under
\* incremental delivery.
C9_Witness ==
    /\ regCall.ran /\ regCall.repeat
    /\ modelContext = "incremental"
    /\ Len(registeredTools) >= 2
    /\ DOMAIN hostTools = Range(registeredTools)

(***************************************************************************)
(* Properties of tool execution (checked under SpecExec)                   *)
(***************************************************************************)
\* v has the shape {content: [{type: "text", text}]}.
IsMcpResult(v) ==
    /\ DOMAIN v = {"content"}
    /\ Len(v.content) = 1
    /\ DOMAIN v.content[1] = {"type", "text"}
    /\ v.content[1].type = "text"

C10_WitnessGate ==
    /\ xpc = "returned" /\ outcome.raised /\ call.tool.destructive
    /\ outcome.error = Err(<<"gate failed">>)

\* A step threw and the invocation has returned.
C10_WitnessStep ==
    /\ xpc = "returned" /\ outcome.raised /\ frames # <<>>
    /\ outcome.error = SyntaxError(SelBad)

(***************************************************************************)
(* Properties of tool execution, continued (checked under SpecExec)        *)
(***************************************************************************)
\* The text of the result handed to the host.
ResultText == outcome.settled.value.content[1].text

\* No step has run, no field fill has been attempted and nothing has been
\* done to the page.
NothingRun ==
    /\ effects = <<>>
    /\ errors = <<>>
    /\ \A i \in DOMAIN frames : frames[i].log = <<>>

Cancelled == ResultText = <<"Tool", call.tool.name, "cancelled by user.">>

\* C11: an invocation of a destructive tool that the confirmation gate has
\* not approved (the user declined, or the host passed no agent handle) runs
\* no step, writes no field, issues no submit, and its result is the
\* "cancelled by user" message.
C11_DestructiveNeedsApproval ==
    (/\ call.tool.destructive
     /\ ~call.approved
     /\ xpc \notin {"idle", "gate"}
     /\ ~outcome.raised)
        => /\ NothingRun
           /\ xpc = "returned" => Cancelled

\* The part of C11 that the code keeps: with an agent handle, nothing runs
\* before the gate approves, and a declined invocation is cancelled.
C11_GatedWithAgent ==
    (/\ call.tool.destructive
     /\ call.agent = "agent"
     /\ ~call.approved
     /\ ~outcome.raised)
        => /\ NothingRun
           /\ xpc \in {"idle", "gate", "returned"}
           /\ xpc = "returned" => Cancelled

\* The results of the top-level steps run so far, in execution order.
TopLog == frames[1].log

LastNonNull(log) ==
    LET idx == {i \in DOMAIN log : log[i] # Null}
    IN  IF idx = {} THEN Null
        ELSE log[CHOOSE i \in idx : \A j \in idx : j <= i]

\* A multi-step invocation ran through its steps and returned.
StepsFinished == xpc = "returned" /\ ~outcome.raised /\ frames # <<>>

ResultOf(v) == IF v # Null THEN StringOf(v) ELSE <<"Executed", call.tool.name>>

\* C12 as claimed: a multi-step tool returns the string form of the last
\* non-null result among its steps, and "Executed <tool>" only when every
\* step returned null.
C12_LastNonNullResult ==
    StepsFinished => ResultText = ResultOf(LastNonNull(TopLog))

\* C12 as amended: a multi-step tool runs all its steps and returns the
\* string form of the result of its last step, whatever earlier steps
\* returned; "Executed <tool>" is returned exactly when the last step
\* returned null.
C12_LastStepResult ==
    StepsFinished =>
        /\ Len(TopLog) = Len(call.tool.exec.steps)
        /\ ResultText = ResultOf(TopLog[Len(TopLog)])

\* An earlier step returned a value, the last one null: "Executed <tool>".
C12_Witness ==
    /\ StepsFinished
    /\ LastNonNull(TopLog) # Null
    /\ TopLog[Len(TopLog)] = Null
    /\ ResultText = <<"Executed", call.tool.name>>

\* The tool's steps end with a wait on a selector followed by a text
\* extraction from the same selector.
WaitThenExtract ==
    LET steps == call.tool.exec.steps
        n == Len(steps)
    IN  /\ n >= 2
        /\ steps[n - 1].action = "wait"
        /\ steps[n].action = "extract" /\ steps[n].extract = "text"
        /\ steps[n].selector = steps[n - 1].selector
        /\ steps[n].selector.kind = "css"

WaitStep == call.tool.exec.steps[Len(call.tool.exec.steps) - 1]

\* Such an invocation is over.  No step follows the wait but the extract,
\* which runs in the same turn: the page is as the wait left it.
WaitExtractDone == xpc = "returned" /\ frames # <<>> /\ WaitThenExtract

IsErrorText(text) ==
    /\ Len(text) >= 1
    /\ text[1] \in {"Error executing", "Error:",
                    "Error: Click target not found or not clickable:",
                    "Error: Scroll target not found:"}

\* C13 as claimed: the tool returns the extracted text when the wait
\* condition was met within the timeout, and an error string when the
\* timeout elapsed first.
C13_TimeoutGivesError ==
    WaitExtractDone =>
        IF SelectorReady(dom[WaitStep.selector.el], WaitStep.state)
        THEN ResultText = TextOf(WaitStep.selector.el)
        ELSE IsErrorText(ResultText)

\* C13 as amended: the tool returns the extracted text when the wait
\* condition was met; when the timeout elapsed first the wait is swallowed,
\* the extract step still runs, and the tool returns what it extracts then:
\* the element's text if the element is in the page, "Executed <tool>" if
\* it is not.  It returns no error string.
C13_TimeoutIsSwallowed ==
    WaitExtractDone =>
        /\ ~outcome.raised
        /\ ResultText = IF dom[WaitStep.selector.el] # "absent"
                        THEN TextOf(WaitStep.selector.el)
                        ELSE <<"Executed", call.tool.name>>

\* The wait timed out on an element that is in the page but hidden.
C13_Witness ==
    /\ WaitExtractDone
    /\ ~SelectorReady(dom[WaitStep.selector.el], WaitStep.state)
    /\ dom[WaitStep.selector.el] = "hidden"
    /\ now > WaitStep.timeout
    /\ ResultText = TextOf(WaitStep.selector.el)

(***************************************************************************)
(* Properties of the navigation coordinator, continued (under SpecNav)     *)
(***************************************************************************)
\* navSeq.get(tabId) ?? 0
SeqOf(m, t) == IF MapHas(m, t) THEN m[t] ELSE 0

C15_FullNavigationReplacesEntry ==
    [][\A h \in pending :
          (/\ ev.kind = "completed" /\ ev.hid = h.hid
           /\ LookupCompletes(h))
          => (MapHas(session', h.tab)
                => session'[h.tab] = [configs |-> ev'.configs,
                                      domain |-> h.domain])]_vars

\* C16: handling a tab-close event removes the tab's session entry and
\* leaves the tab no entry in lastUrl, navSeq or registeredDomain.
C16_TabCloseClearsTab ==
    [][\A t \in Tabs :
          (Delivers("removed") /\ ev'.tab = t)
          => /\ ~MapHas(session', t)
             /\ ~MapHas(lastUrl', t)
             /\ ~MapHas(navSeq', t)
             /\ ~MapHas(registeredDomain', t)]_vars

\* A tab whose configs had been stored and notified was closed.
C16_Witness ==
    /\ ev.kind = "removed" /\ ev.tab \in closed
    /\ \E i \in DOMAIN sent : sent[i].tab = ev.tab
    /\ ~MapHas(session, ev.tab) /\ ~MapHas(lastUrl, ev.tab)
    /\ ~MapHas(navSeq, ev.tab) /\ ~MapHas(registeredDomain, ev.tab)

\* What the coordinator holds for one tab.
TabState(lu, ns, rd, se, t) ==
    << IF MapHas(lu, t) THEN <<lu[t]>> ELSE <<>>,
       IF MapHas(ns, t) THEN <<ns[t]>> ELSE <<>>,
       IF MapHas(rd, t) THEN <<rd[t]>> ELSE <<>>,
       IF MapHas(se, t) THEN <<se[t]>> ELSE <<>> >>

\* C17: a step taken for tab A (a navigation event, well-formed or not, a
\* lookup completion or failure, a tab close) leaves the dedup key, the
\* sequence number, the registered domain and the session entry of every
\* other tab as they were.
C17_OtherTabsUntouched ==
    [][\A b \in Tabs :
          b # ev'.tab
          => TabState(lastUrl', navSeq', registeredDomain', session', b)
               = TabState(lastUrl, navSeq, registeredDomain, session, b)]_vars

\* Tab 1 was closed while tab 2 held a dedup key, a sequence number, a
\* registered domain and a session entry.
C17_Witness ==
    /\ ev.kind = "removed" /\ ev.tab = 1
    /\ MapHas(lastUrl, 2) /\ MapHas(navSeq, 2)
    /\ MapHas(registeredDomain, 2) /\ MapHas(session, 2)

\* The step delivers a top-frame navigation event with a well-formed URL
\* for tab t.
Navigates(t) ==
    /\ nEvents' = nEvents + 1
    /\ ev'.kind \in {"completed", "history"}
    /\ ev'.tab = t /\ ev'.frameId = 0 /\ ev'.url.valid

\* C18: a lookup is issued only by a navigation event of its tab, one per
\* event; and when the lookup of a tab's latest navigation has failed, the
\* next navigation event of that tab (here: arriving as the next thing to
\* happen) issues a lookup again.
C18_NextNavigationRetries ==
    [][/\ \A t \in Tabs :
             lookups'[t] # lookups[t]
             => lookups'[t] = lookups[t] + 1 /\ Navigates(t)
       /\ (/\ ev.kind = "failed"
           /\ SeqOf(navSeq, ev.tab) = ev.seq
           /\ Navigates(ev.tab))
          => lookups'[ev.tab] = lookups[ev.tab] + 1]_vars

\* The part of C18 that the code keeps: lookups are issued by navigation
\* events only, and after a failure the next navigation event retries
\* unless it is an in-page navigation to the URL whose lookup failed.
C18_RetryUnlessDeduplicated ==
    [][/\ \A t \in Tabs :
             lookups'[t] # lookups[t]
             => lookups'[t] = lookups[t] + 1 /\ Navigates(t)
       /\ (/\ ev.kind = "failed"
           /\ SeqOf(navSeq, ev.tab) = ev.seq
           /\ Navigates(ev.tab)
           /\ \/ ev'.kind = "completed"
              \/ ~IsDuplicate(lastUrl, ev.tab, NormalizedUrl(ev'.url)))
          => lookups'[ev.tab] = lookups[ev.tab] + 1]_vars

(***************************************************************************)
(* Properties of simple mode (checked under SpecExec)                      *)
(***************************************************************************)
\* params[field.name] !== undefined for the i-th field of the descriptor
Present(i) == Fields[i].name \in DOMAIN call.params

\* The writes to fields made so far, in order.
Writes == SelectSeq(effects, LAMBDA e : e.op \in {"fill", "check"})

\* The invocation entered simple mode.
SimpleMode == fieldIdx >= 1

\* The fill of the i-th field has been attempted.
Attempted(i) == i < fieldIdx \/ (i = fieldIdx /\ outcome.raised)

\* One pass of the loop over exec.fields: fields are taken one at a time in
\* descriptor order, a field whose parameter is absent is left alone, and
\* the attempt on a field whose parameter is present either writes that
\* field or records an error for it, and moves on to the next field.
FieldLoopStep ==
    AtField =>
        /\ fieldIdx' \in {fieldIdx, fieldIdx + 1}
        /\ ~Present(fieldIdx) => effects' = effects /\ errors' = errors
        /\ (Present(fieldIdx) /\ fieldIdx' = fieldIdx + 1) =>
              \/ /\ errors' = errors
                 /\ Len(effects') = Len(effects) + 1
                 /\ effects'[Len(effects')].op \in {"fill", "check"}
                 /\ effects'[Len(effects')].el = Fields[fieldIdx].selector.el
                 /\ effects'[Len(effects')].value = call.params[Fields[fieldIdx].name]
              \/ /\ effects' = effects
                 /\ Len(errors') = Len(errors) + 1
                 /\ errors'[Len(errors')][2] = Fields[fieldIdx].name

\* Each field passed so far whose parameter is present left exactly one
\* trace: a write or an error.
OnceEach ==
    SimpleMode =>
        Len(errors) + Len(Writes)
            = Cardinality({i \in 1..Len(Fields) : i < fieldIdx /\ Present(i)})

ReturnedWithFillErrors ==
    /\ xpc = "returned" /\ ~outcome.raised
    /\ SimpleMode /\ fieldIdx > Len(Fields)
    /\ Len(errors) > 0

EndsWith(text, suffix) ==
    /\ Len(text) >= Len(suffix)
    /\ SubSeq(text, Len(text) - Len(suffix) + 1, Len(text)) = suffix

Warnings == <<"Warnings:">> \o JoinAll(errors)

SubmitOps == {"requestSubmit", "enter", "click"}

C20_WitnessNoSubmit ==
    /\ ReturnedWithFillErrors
    /\ ~call.tool.exec.autosubmit
    /\ ResultText[1] = "Error filling fields for"

(***************************************************************************)
(* Properties of the step interpreter (checked under SpecExec)             *)
(***************************************************************************)
\* What running a step does to the page, when it does anything.
EffectOp(step) ==
    IF step.action \in {"fill", "select"} THEN "fill" ELSE step.action

EffectEl(step) ==
    IF step.action \in {"navigate", "evaluate"} THEN "" ELSE step.selector.el

\* The loops over steps, outermost first: each has completed exactly the
\* steps before its position, and every loop but the innermost is stopped
\* at a condition step whose branch is the next loop.  A poll belongs to
\* the step the innermost loop is at.
FramesInOrder ==
    /\ \A k \in DOMAIN frames :
          /\ frames[k].i \in 1..(Len(frames[k].steps) + 1)
          /\ Len(frames[k].log) = frames[k].i - 1
          /\ k < Len(frames) =>
                /\ frames[k].i <= Len(frames[k].steps)
                /\ frames[k].steps[frames[k].i].action = "condition"
                /\ frames[k + 1].steps
                      \in {frames[k].steps[frames[k].i].thenSteps,
                           frames[k].steps[frames[k].i].elseSteps}
    /\ (xpc = "polling" /\ poll.kind \in {"clickable", "wait"}) =>
          /\ Top.i <= Len(Top.steps)
          /\ Cur.action = (IF poll.kind = "wait" THEN "wait" ELSE "click")
          /\ Cur.selector = poll.sel

\* One step of the interpreter: only the innermost loop moves on, by one
\* step; a branch is entered from a condition step only and left only when
\* all its steps have completed; what is done to the page is what the
\* current step does.
StepAfterStep ==
    /\ \A k \in DOMAIN frames \cap DOMAIN frames' :
          /\ frames'[k].steps = frames[k].steps
          /\ frames'[k].i \in {frames[k].i, frames[k].i + 1}
          /\ frames'[k].i # frames[k].i => k = Len(frames')
    /\ (frames # <<>> /\ Len(frames') > Len(frames)) =>
          /\ Len(frames') = Len(frames) + 1
          /\ Cur.action = "condition"
          /\ frames'[Len(frames')].i = 1
    /\ Len(frames') < Len(frames) =>
          /\ Len(frames') = Len(frames) - 1
          /\ Top.i > Len(Top.steps)
    /\ (frames # <<>> /\ effects' # effects) =>
          /\ Top.i <= Len(Top.steps)
          /\ effects' = Append(effects, effects'[Len(effects')])
          /\ effects'[Len(effects')].op = EffectOp(Cur)
          /\ effects'[Len(effects')].el = EffectEl(Cur)
          /\ frames'[Len(frames)].i = Top.i + 1

\* C21: within one invocation at most one step is running at any time:
\* step k+1 starts only after step k, the whole branch of a condition step
\* included, has completed, and the steps of a branch run in listed order.
C21_StepsRunOneAtATime ==
    /\ [](FramesInOrder)
    /\ [][StepAfterStep]_vars

\* The second step of a condition branch is about to run, its first step
\* done, while the enclosing loop stays at the condition step.
C21_Witness ==
    /\ xpc = "steps" /\ Len(frames) = 2
    /\ frames[1].i = 1 /\ frames[1].log = <<>>
    /\ frames[2].i = 2 /\ Len(frames[2].log) = 1
    /\ Len(frames[2].steps) = 2

(***************************************************************************)
(* Properties of selector resolution                                       *)
(***************************************************************************)
\* The traversal visits the document first and the shadow trees after it.
TraversalBefore(doc, i, j) ==
    \/ ~doc[i].shadow /\ doc[j].shadow
    \/ doc[i].shadow = doc[j].shadow /\ i < j

\* The elements matching base whose collapsed, trimmed text contains t.
Containing(doc, sel) ==
    { i \in DOMAIN doc :
        /\ doc[i].tag = sel.base
        /\ Includes(Trim(CollapseSpaces(doc[i].text)), Trim(sel.text)) }

FirstContaining(doc, sel) ==
    CHOOSE i \in Containing(doc, sel) :
        \A j \in Containing(doc, sel) \ {i} : TraversalBefore(doc, i, j)

HasTextQueried == fnOut.fn = "query" /\ fnIn.sel.hasText

\* C22 (as stated): query of base:has-text("t") suffix returns the first
\* element in traversal order matching base whose normalized text contains
\* t, or its suffix descendant when a suffix is given, and returns null
\* exactly when no element matching base contains t.
C22_NullExactlyWhenNoText ==
    HasTextQueried =>
        LET doc == fnIn.doc
            sel == fnIn.sel
            first == FirstContaining(doc, sel)
        IN  /\ fnOut.one = NoElement <=> Containing(doc, sel) = {}
            /\ Containing(doc, sel) # {} =>
                   fnOut.one = IF sel.suffix THEN SuffixOf(first) ELSE TheElement(first)

\* C22 (amended): query of base:has-text("t") suffix looks only at the
\* first element in traversal order matching base whose normalized text
\* contains t.  It returns that element when no suffix is given and that
\* element's suffix descendant when one is; it returns null when no element
\* matching base contains t, and also when a suffix is given and that first
\* element has no descendant matching it.
C22_FirstContainingThenSuffix ==
    HasTextQueried =>
        LET doc == fnIn.doc
            sel == fnIn.sel
            first == FirstContaining(doc, sel)
        IN  fnOut.one =
                IF Containing(doc, sel) = {} THEN NoElement
                ELSE IF ~sel.suffix THEN TheElement(first)
                ELSE IF doc[first].child THEN SuffixOf(first)
                ELSE NoElement

\* A shadow-hosted button whose text needs collapsing is found behind a
\* button of the document that does not contain the text, and its suffix
\* descendant is returned.
C22_Witness ==
    /\ HasTextQueried
    /\ fnIn.sel.suffix
    /\ fnIn.sel.text = <<"s", " ", "x">>
    /\ fnOut.one.found
    /\ fnOut.one = SuffixOf(2)
    /\ fnIn.doc[2].shadow
    /\ fnIn.doc[2].text = <<" ", "s", " ", " ", "x">>
    /\ fnIn.doc[1].tag = "button" /\ ~fnIn.doc[1].shadow

\* A later button contains the text and has the suffix descendant, yet the
\* query returns null because the first one lacks it.
C22_WitnessNull ==
    /\ HasTextQueried
    /\ fnIn.sel.suffix
    /\ fnOut.one = NoElement
    /\ \E i \in Containing(fnIn.doc, fnIn.sel) : fnIn.doc[i].child

(***************************************************************************)
(* Properties of the dedup key                                             *)
(***************************************************************************)
\* The port of a URL when it is not the default port of the URL's scheme.
NonDefaultPort(u) ==
    IF u.port = "" \/ u.port = SchemeDefaultPort(u.scheme) THEN "" ELSE u.port

SameKey == fnOut.u = fnOut.v

EmptyListReceived ==
    /\ nMsgs' = nMsgs + 1
    /\ regCall'.msg = Message("CONFIGS_FOUND", TRUE, <<>>)

\* The host is given an empty set, or every tracked name is unregistered.
HostCleared ==
    \/ hostCalls' = << HostCall("provideContext", "", <<>>) >>
    \/ /\ \A i \in DOMAIN hostCalls' : hostCalls'[i].op = "unregisterTool"
       /\ \A name \in Range(registeredTools) :
              \E i \in DOMAIN hostCalls' : hostCalls'[i].name = name

NoToolsLeft ==
    /\ hostTools' = EmptyMap
    /\ registeredTools' = <<>>

\* C24 (as stated): on CONFIGS_FOUND with an empty config list the host is
\* given an empty set or every tracked name is unregistered, no
\* extension-registered tool is left and the tracked name set is empty.
C24_EmptyListClearsTools ==
    [][EmptyListReceived => (NoToolsLeft /\ (modelContext # "none" => HostCleared))]_vars

\* C24 (amended): the same, on a host that offers the atomic call or
\* unregister-by-name.  On a host that offers registerTool only no call is
\* made: the tracked name set becomes empty while the host keeps the tools.
C24_EmptyListClearsWhereHostCan ==
    [][EmptyListReceived =>
          /\ modelContext \in {"provideContext", "incremental"} =>
                 (NoToolsLeft /\ HostCleared)
          /\ modelContext = "registerOnly" =>
                 /\ registeredTools' = <<>>
                 /\ hostCalls' = <<>>
                 /\ hostTools' = hostTools]_vars

\* The empty list arrived on an incremental host that had tools, and each
\* was unregistered.
C24_Witness ==
    /\ regCall.ran
    /\ regCall.msg = Message("CONFIGS_FOUND", TRUE, <<>>)
    /\ modelContext = "incremental"
    /\ hostCalls # <<>>
    /\ hostTools = EmptyMap
    /\ registeredTools = <<>>

\* The empty list arrived on a registerTool-only host: tools are left.
C24_WitnessLeft ==
    /\ regCall.ran
    /\ regCall.msg = Message("CONFIGS_FOUND", TRUE, <<>>)
    /\ modelContext = "registerOnly"
    /\ hostTools # EmptyMap
    /\ registeredTools = <<>>

\* This step is a registrar call that reaches the delivery.
RegistrarDelivers ==
    /\ nMsgs' = nMsgs + 1
    /\ regCall'.ran

\* The new set: the registrations built from the configs of the message.
NewSet == BuildTools(FlattenTools(regCall'.msg.configs), <<>>, DeclarativeNames(forms))

NewNames == {NewSet[i].name : i \in DOMAIN NewSet}

CallsOf(op) == SelectSeq(hostCalls', LAMBDA c : c.op = op)

\* C25: in incremental mode one registrar call unregisters exactly the
\* previously tracked names absent from the new set, each once, then
\* registers every tool of the new set in order, every unregister call
\* coming before the first register call; after a call in either mode the
\* tracked name set equals the names of the new set.
C25_UnregisterThenRegister ==
    [][RegistrarDelivers =>
          /\ Range(registeredTools') = NewNames
          /\ modelContext = "incremental" =>
              LET unregisters == CallsOf("unregisterTool")
                  registers == CallsOf("registerTool")
              IN  /\ hostCalls' = unregisters \o registers
                  /\ {unregisters[i].name : i \in DOMAIN unregisters}
                         = Range(registeredTools) \ NewNames
                  /\ Len(unregisters) = Cardinality(Range(registeredTools) \ NewNames)
                  /\ registers = [i \in DOMAIN NewSet |->
                                    HostCall("registerTool", NewSet[i].name, <<NewSet[i]>>)]
          /\ modelContext = "provideContext" =>
                 hostCalls' = << HostCall("provideContext", "", NewSet) >>]_vars

\* An incremental call that both unregistered a stale name and registered
\* a tool.
C25_Witness ==
    /\ regCall.ran
    /\ modelContext = "incremental"
    /\ \E i, j \in DOMAIN hostCalls :
          /\ i < j
          /\ hostCalls[i].op = "unregisterTool"
          /\ hostCalls[j].op = "registerTool"
    /\ Range(registeredTools) = {hostCalls[j].name : j \in {k \in DOMAIN hostCalls : hostCalls[k].op = "registerTool"}}

(***************************************************************************)
(* Properties of waits, conditions and the result of simple mode           *)
(***************************************************************************)
\* A poll of the given kind ends on a page where its selector resolves and
\* the awaited state is not there.
PollGivesUp(kind) ==
    /\ xpc = "polling" /\ poll.kind = kind
    /\ xpc' \notin {"polling", "hung"}
    /\ ~query(dom, poll.sel).threw
    /\ ~SelectorReady(query(dom, poll.sel).el, poll.state)

Mentions(text, word) == \E i \in DOMAIN text : text[i] = word

\* The invocation runs the steps of a multi-step tool.
MultiStepMode == xpc # "idle" /\ Len(call.tool.exec.steps) > 0

\* C26: a wait step whose timeout expires yields null to the loop it is in,
\* which goes on with the step after it: nothing is thrown, the tool is not
\* settled by it, and no multi-step tool's result carries a timeout error.
C26_WaitTimeoutIsSoft ==
    /\ [][PollGivesUp("wait") =>
             /\ TimedOut(poll)
             /\ xpc' = "steps"
             /\ outcome' = outcome /\ ~outcome'.raised
             /\ effects' = effects
             /\ frames' = [frames EXCEPT ![Len(frames)] =
                             [@ EXCEPT !.result = Null, !.i = @ + 1,
                                       !.log = Append(@, Null)]]]_vars
    /\ [](MultiStepMode =>
             /\ ~Mentions(ResultText, "Timeout waiting for")
             /\ ~Mentions(outcome.error.message, "Timeout waiting for"))

\* The wait of the search tool timed out (the results are still not
\* visible), the extract step after it ran, and the tool returned.
C26_Witness ==
    /\ StepsFinished
    /\ call.tool.name = "search"
    /\ Len(TopLog) = 4
    /\ TopLog[3] = Null
    /\ ~SelectorReady(dom["results"], "visible")
    /\ now > 2000

\* The value of a loop over steps: that of the last step it ran.
LastOf(log) == IF log = <<>> THEN Null ELSE log[Len(log)]

\* A condition step is about to run on a target whose selector resolves.
AtCondition == AtStep /\ Cur.action = "condition" /\ ~query(dom, Cur.selector).threw

ConditionHolds == checkState(query(dom, Cur.selector).el, Cur.state)

\* The loop over a branch has run out of steps.
BranchOver == xpc = "steps" /\ Len(frames) > 1 /\ Top.i > Len(Top.steps)

\* The enclosing loop receives v as the value of its current step.
Yields(parent, v) ==
    /\ Len(frames') = parent
    /\ frames'[parent] = [frames[parent] EXCEPT !.result = v, !.i = @ + 1,
                                                !.log = Append(@, v)]

\* C27: a condition step enters `then` when the target's state matches and
\* `else` otherwise; when the chosen branch is absent it runs nothing and
\* yields null; the value it yields is that of the last step run in the
\* branch, and every loop, top level or branch, computes its value in the
\* same way.
C27_ConditionRunsChosenBranch ==
    /\ [][AtCondition =>
             /\ effects' = effects
             /\ IF ConditionHolds
                THEN frames' = Append(frames, Frame(Cur.thenSteps))
                ELSE IF Cur.hasElse
                THEN frames' = Append(frames, Frame(Cur.elseSteps))
                ELSE Yields(Len(frames), Null)]_vars
    /\ [][BranchOver =>
             /\ Yields(Len(frames) - 1, LastOf(Top.log))
             /\ effects' = effects]_vars
    /\ [](\A i \in DOMAIN frames : frames[i].result = LastOf(frames[i].log))
    /\ [](StepsFinished => ResultText = ResultOf(LastOf(frames[1].log)))

\* The branch tool took its `then` branch, clicked, extracted a value, and
\* that value is what the condition step yielded to the top-level loop.
C27_Witness ==
    /\ call.tool.name = "branch"
    /\ Len(frames) = 1
    /\ Len(frames[1].log) >= 1
    /\ frames[1].log[1] # Null
    /\ \E i \in DOMAIN effects : effects[i].op = "click"

\* The second condition of the branch tool did not match and has no else.
C27_WitnessNoBranch ==
    /\ StepsFinished
    /\ call.tool.name = "branch"
    /\ Len(frames[1].log) = 2
    /\ frames[1].log[2] = Null
    /\ ~checkState(dom["results"], "hidden")

\* The tool is in simple mode and submits by itself.
Autosubmits == xpc # "idle" /\ Len(call.tool.exec.steps) = 0 /\ call.tool.exec.autosubmit

\* C28: in simple mode without autosubmit and without fill errors, a result
\* wait that times out gives a textual error result without extraction when
\* the result is required, and is swallowed, the extraction following, when
\* it is not; with autosubmit the tool returns right after the submit, with
\* no result wait and no extraction.
C28_ResultWaitHardOrSoft ==
    /\ [][PollGivesUp("result") =>
             /\ TimedOut(poll)
             /\ ~call.tool.exec.autosubmit /\ errors = <<>>
             /\ IF call.tool.exec.resultRequired
                THEN /\ xpc' = "returned"
                     /\ outcome'.settled.kind = "value"
                     /\ ResultText' = <<"Error executing", call.tool.name>>
                                        \o TimeoutError(poll.sel).message
                ELSE /\ xpc' = "extract"
                     /\ outcome' = outcome]_vars
    /\ [][xpc = "extract" =>
             /\ xpc' = "returned"
             /\ ~extractResult(dom, call.tool.exec.resultSelector,
                               call.tool.exec.resultExtract).threw
                  /\ call.tool.exec.resultSelector # NoSel
                  /\ call.tool.exec.resultExtract = "text"
                  /\ dom[call.tool.exec.resultSelector.el] # "absent"
                => ResultText' = TextOf(call.tool.exec.resultSelector.el)]_vars
    /\ [](Autosubmits => xpc \notin {"polling", "delay", "extract"})
    /\ [][(Autosubmits /\ AfterFields) => xpc' = "returned"]_vars

\* The required result never became visible: the tool returned the timeout
\* as an error text.
C28_Witness ==
    /\ xpc = "returned"
    /\ call.tool.name = "readRequired"
    /\ outcome.raised
    /\ outcome.error = TimeoutError(SelResults)
    /\ outcome.settled.kind = "value"
    /\ now > DefaultTimeout

\* The optional result never became visible, and the extraction ran.
C28_WitnessSoft ==
    /\ xpc = "extract"
    /\ call.tool.name = "readSoft"
    /\ ~SelectorReady(dom["results"], "visible")
    /\ now > DefaultTimeout

\* C29 (as stated): with the "enter" strategy the element that receives the
\* Enter sequence, or whose form is submitted, is the last field written in
\* this invocation, whatever the parameter map.
C29_EnterOnLastFilledField ==
    [][( /\ AfterFields
         /\ call.tool.exec.autosubmit /\ call.tool.exec.submitAction = "enter"
         /\ effects' # effects
         /\ Writes # <<>> )
       => effects'[Len(effects')].el = Writes[Len(Writes)].el]_vars

(***************************************************************************)
(* Properties of the navigation coordinator: superseded navigations        *)
(***************************************************************************)
\* A newer navigation of h's tab has been given a sequence number.
Superseded(h) == MapHas(navSeq, h.tab) /\ navSeq[h.tab] > h.seq

\* C30 (as stated): when a session write or a CONFIGS_FOUND notification is
\* emitted for a tab, the navigation it belongs to is still the tab's most
\* recent one.
C30_NoSupersededEmission ==
    [][\A h \in pending :
          /\ (h.pc = "lookup" /\ ev'.kind = "resolved" /\ ev'.hid = h.hid
                /\ session' # session) => ~Superseded(h)
          /\ (h.pc = "stored" /\ ev'.kind = "notified" /\ ev'.hid = h.hid
                /\ sent' # sent) => ~Superseded(h)]_vars

\* C30 (amended): when a session write is emitted for a tab, the navigation
\* it belongs to is still the tab's most recent one.  The CONFIGS_FOUND
\* notification follows the awaited session write without a second check
\* and carries the configs that were written, so a newer navigation event
\* arriving while the write is awaited does not stop it.
C30_FenceCoversSessionWriteOnly ==
    [][\A h \in pending :
          /\ (h.pc = "lookup" /\ ev'.kind = "resolved" /\ ev'.hid = h.hid
                /\ session' # session)
             => /\ MapHas(navSeq, h.tab) /\ navSeq[h.tab] = h.seq
                /\ session'[h.tab].configs = ev'.configs
          /\ (h.pc = "stored" /\ ev'.hid = h.hid /\ ev' # ev)
             => /\ ev'.kind = "notified"
                /\ sent' = Append(sent, [tab |-> h.tab, type |-> "CONFIGS_FOUND",
                                         configs |-> h.configs])]_vars

\* The configs of a navigation were notified after a newer navigation of
\* the tab had been given its sequence number.
C30_Witness ==
    /\ ev.kind = "notified"
    /\ sent # <<>>
    /\ sent[Len(sent)].configs = ev.configs /\ Len(ev.configs) > 0
    /\ MapHas(navSeq, ev.tab) /\ navSeq[ev.tab] > ev.seq

(***************************************************************************)
(* Properties of the navigation coordinator: failures, no-ops, tab close   *)
(***************************************************************************)
\* C31 (as stated): when the lookup of a tab's latest navigation fails, its
\* URL is not left as the tab's dedup key, so that a later in-page
\* navigation event to the same normalized URL issues a new lookup.
C31_FailedLookupForgetsUrl ==
    [][/\ \A h \in pending :
             (/\ h.pc = "lookup"
              /\ ev'.kind = "failed" /\ ev'.hid = h.hid
              /\ SeqOf(navSeq, h.tab) = h.seq)
             => ~(MapHas(lastUrl', h.tab) /\ lastUrl'[h.tab] = h.url)
       /\ (/\ ev.kind = "failed"
           /\ SeqOf(navSeq, ev.tab) = ev.seq
           /\ Navigates(ev.tab) /\ ev'.kind = "history"
           /\ MapHas(lastUrl, ev.tab)
           /\ NormalizedUrl(ev'.url) = lastUrl[ev.tab])
          => lookups'[ev.tab] = lookups[ev.tab] + 1]_vars

\* This step delivers a navigation event that is not from the top frame, or
\* an in-page navigation event whose normalized URL is the tab's dedup key.
\* (A full navigation of the top frame clears the key first and so is never
\* deduplicated.)
NoOpNavigation ==
    /\ nEvents' = nEvents + 1
    /\ ev'.kind \in {"completed", "history"}
    /\ \/ ev'.frameId # 0
       \/ /\ ev'.kind = "history"
          /\ ev'.url.valid
          /\ MapHas(lastUrl, ev'.tab)
          /\ lastUrl[ev'.tab] = NormalizedUrl(ev'.url)

\* C32: a deduplicated navigation event, and one from a frame other than
\* the top frame, change nothing: dedup key, sequence number, registered
\* domain and session entry stay as they are, no lookup is issued, and the
\* lookups in flight stay as valid as they were.
C32_NoOpNavigationChangesNothing ==
    [][NoOpNavigation =>
          /\ lastUrl' = lastUrl
          /\ navSeq' = navSeq
          /\ registeredDomain' = registeredDomain
          /\ session' = session
          /\ sent' = sent
          /\ lookups' = lookups
          /\ pending' = pending
          /\ \A h \in pending :
                (MapHas(navSeq', h.tab) /\ navSeq'[h.tab] = h.seq)
                <=> (MapHas(navSeq, h.tab) /\ navSeq[h.tab] = h.seq)]_vars

\* An in-page navigation of the top frame to the URL whose lookup is in
\* flight was deduplicated: that lookup is still the tab's latest.
C32_Witness ==
    /\ ev.kind = "history" /\ ev.frameId = 0 /\ ev.url.valid
    /\ \A h \in pending : h.hid # ev.hid
    /\ \E h \in pending :
          /\ h.tab = ev.tab /\ h.pc = "lookup"
          /\ h.url = NormalizedUrl(ev.url)
          /\ MapHas(navSeq, h.tab) /\ navSeq[h.tab] = h.seq

\* A sub-frame full navigation arrived while a lookup was in flight.
C32_WitnessFrame ==
    /\ ev.kind = "completed" /\ ev.frameId # 0 /\ ev.url.valid
    /\ \E h \in pending : h.tab = ev.tab /\ h.pc = "lookup"

\* No state is held for tab t.
NoStateFor(t) ==
    /\ ~MapHas(session, t)
    /\ ~MapHas(lastUrl, t)
    /\ ~MapHas(navSeq, t)
    /\ ~MapHas(registeredDomain, t)

\* C33: once a tab is closed no state for it exists, neither before nor
\* after the lookups and session writes that were in flight at close time
\* complete; their completion writes nothing for the tab.
C33_ClosedTabStaysClean ==
    /\ [](\A t \in closed : NoStateFor(t))
    /\ [][\A h \in pending :
             (h.tab \in closed /\ ev'.hid = h.hid /\ ev' # ev)
             => /\ session' = session
                /\ lastUrl' = lastUrl
                /\ navSeq' = navSeq
                /\ registeredDomain' = registeredDomain
                /\ \A g \in pending' : g.hid # h.hid]_vars

\* A lookup that found configs completed after its tab was closed.
C33_Witness ==
    /\ ev.kind = "resolved" /\ Len(ev.configs) > 0
    /\ ev.tab \in closed
    /\ NoStateFor(ev.tab)
    /\ \A h \in pending : h.tab # ev.tab

\* A session write completed after its tab was closed.
C33_WitnessWrite ==
    /\ ev.kind = "notified"
    /\ ev.tab \in closed
    /\ NoStateFor(ev.tab)

(***************************************************************************)
(* Properties of the tool registrar: the two delivery modes agree          *)
(***************************************************************************)
\* The tools a host holds once it has been given exactly the set `tools`.
\* It depends on the delivered config lists and on the page's declared
\* forms only, not on the delivery mode.
HostHolding(tools) ==
    [name \in {tools[i].name : i \in DOMAIN tools} |->
        tools[CHOOSE i \in DOMAIN tools : tools[i].name = name]]

TwoWayHost == modelContext \in {"provideContext", "incremental"}

\* C34: after each registrar call the host holds exactly the new set, the
\* same under atomic-replace delivery and under incremental delivery with
\* unregister available (on a host that overwrites on re-registration), and
\* the names it holds are the registrar's tracked names.
C34_DeliveryModesAgree ==
    /\ [][(RegistrarDelivers /\ TwoWayHost) =>
             /\ hostTools' = HostHolding(NewSet)
             /\ DOMAIN hostTools' = Range(registeredTools')]_vars
    /\ [](TwoWayHost => DOMAIN hostTools = Range(registeredTools))

\* A second list reached an incremental host: a name was dropped, another
\* was kept with a new descriptor, and the host holds the new set.
C34_Witness ==
    /\ regCall.ran
    /\ modelContext = "incremental"
    /\ nMsgs = 2
    /\ \E i \in DOMAIN hostCalls : hostCalls[i].op = "unregisterTool"
    /\ "a" \in DOMAIN hostTools /\ hostTools["a"].id = 3
    /\ DOMAIN hostTools = Range(registeredTools)

(***************************************************************************)
(* Properties of selector resolution: query against queryAll               *)
(***************************************************************************)
FirstOrNull(list) == IF list = <<>> THEN NoElement ELSE list[1]

\* The list queryAll returns for the arguments of the call.
MatchAll == queryAll(fnIn.doc, fnIn.sel)

\* C35 (as stated): for every selector and document, query returns the
\* first element of the list queryAll returns, and null exactly when the
\* list is empty, :has-text selectors with a suffix included.
C35_QueryIsFirstOfQueryAll ==
    fnOut.fn = "query" =>
        /\ fnOut.one = FirstOrNull(MatchAll)
        /\ fnOut.one = NoElement <=> MatchAll = <<>>

\* The first element in traversal order that matches base and contains the
\* text has a descendant matching the suffix.
FirstMatchHasSuffix ==
    /\ Containing(fnIn.doc, fnIn.sel) # {}
    /\ fnIn.doc[FirstContaining(fnIn.doc, fnIn.sel)].child

\* C35 (amended): query returns the first element of the list queryAll
\* returns, and null exactly when the list is empty, for plain selectors
\* and for :has-text selectors without a suffix.  For a :has-text selector
\* with a suffix this holds when no element contains the text or the first
\* one that does has a suffix descendant; when it has none, query returns
\* null, while queryAll skips that element and lists the suffix descendants
\* of the later ones.
C35_QueryIsFirstUnlessSuffixMissing ==
    fnOut.fn = "query" =>
        IF ~(fnIn.sel.hasText /\ fnIn.sel.suffix)
               \/ Containing(fnIn.doc, fnIn.sel) = {}
               \/ FirstMatchHasSuffix
        THEN /\ fnOut.one = FirstOrNull(MatchAll)
             /\ fnOut.one = NoElement <=> MatchAll = <<>>
        ELSE /\ fnOut.one = NoElement
             /\ \A k \in DOMAIN MatchAll :
                   /\ MatchAll[k].part = "suffix"
                   /\ MatchAll[k].idx \in Containing(fnIn.doc, fnIn.sel)
                   /\ MatchAll[k].idx # FirstContaining(fnIn.doc, fnIn.sel)
             /\ Len(MatchAll) = Cardinality({i \in Containing(fnIn.doc, fnIn.sel) : fnIn.doc[i].child})

\* Two buttons contain the text and have the suffix descendant: query
\* returns the first of the two that queryAll lists.
C35_Witness ==
    /\ fnOut.fn = "query"
    /\ fnIn.sel.hasText /\ fnIn.sel.suffix
    /\ Len(MatchAll) = 2
    /\ fnOut.one = MatchAll[1]
    /\ fnOut.one.part = "suffix"

\* query returns null and queryAll does not return the empty list.
C35_WitnessDiffer ==
    /\ fnOut.fn = "query"
    /\ fnOut.one = NoElement
    /\ MatchAll # <<>>

(***************************************************************************)
(* Termination of an invocation (under SpecExecFair)                       *)
(***************************************************************************)
\* The model's clock has used up its ticks before the wait in progress has
\* reached its timeout: the proviso that the clock advances no longer holds.
ClockStopped ==
    /\ Suspended
    /\ nTicks = MaxTicks
    /\ now - poll.start <= poll.timeout

\* C36 (as stated): every tool invocation eventually returns a result,
\* provided animation frames keep firing, the clock advances and the
\* confirmation gate answers.
C36_EveryInvocationReturns ==
    (xpc # "idle") ~> (xpc = "returned" \/ ClockStopped)

====
